---- MODULE Spec2Model ----
(***************************************************************************)
(* Model of the frontend of the AI Product Discovery Assistant:            *)
(*   - AppStateContext.tsx : appReducer, the cart/session context          *)
(*     functions and the session start-up effect;                          *)
(*   - useSSEConnection.ts : the SSE hook (connection life cycle,          *)
(*     reconnection with backoff, event handlers, message list);           *)
(*   - FunctionCallRenderer.tsx, MessageList.tsx : what the chat renders   *)
(*     for a message;                                                      *)
(*   - ChatInterface.tsx, MessageInput.tsx : the message input and the     *)
(*     sending of a message;                                               *)
(* and of the part of the backend the frontend relies on: the validation   *)
(* of product identifiers, the order of a turn's events and the fuzzy      *)
(* catalog search.                                                         *)
(* Money is modelled in integer units, strings that are only compared are  *)
(* modelled as TLA+ strings, null as the string "null".                    *)
(*                                                                         *)
(* The specifications share the variables:                                 *)
(*   SpecCart       the cart functions of the context over appReducer;     *)
(*   SpecSession    the start-up of the session (both mount effects, the   *)
(*                  answers of the backend, page reloads);                 *)
(*   SpecConnection the connection life cycle of the hook;                 *)
(*   SpecMessages   the message list of the hook;                          *)
(*   SpecRender     the rendering of function_call messages;               *)
(*   SpecContext    the backend's context tracker (product validation);    *)
(*   SpecTurn       the backend's turn state machine;                      *)
(*   SpecHistory    the search history of the context;                     *)
(*   SpecSearch     the catalog searches of the backend;                   *)
(*   SpecInput      the message input of the chat;                         *)
(*   SpecStream     the streamed events of a turn, as the hook receives    *)
(*                  them.                                                  *)
(*                                                                         *)
(* EventSource follows the DOM: an event of type 'error' dispatched at it  *)
(* (the Event of a network error as well as a server-sent `event: error`)  *)
(* is delivered to every handler registered for 'error', in the order of   *)
(* registration: the listener of addEventListener('error'), then onerror.  *)
(* After a network error the browser either closes the source or retries   *)
(* by itself (readyState CONNECTING); a closed source dispatches nothing.  *)
(* Timers fire in any order.                                               *)
(***************************************************************************)
EXTENDS Integers, Sequences, FiniteSets, Bags, TLC

Null == "null"

(***************************************************************************)
(* Bounds of the model                                                     *)
(***************************************************************************)
\* number of addToCart calls explored (each call draws a fresh line id)
MaxCartAdds == 2
\* number of sessions the backend creates
MaxSessions == 3
\* timers of the hook pending at a time
MaxTimers == 2
\* messages in the hook's list, and chunks in one message
MaxMessages == 2
MaxChunks == 2
\* POSTs of sendMessage in flight at a time
MaxSends == 1
\* largest quantity a caller passes to addToCart / updateCartItem
MaxQty == 2
\* suggestions a failed validation returns (ErrorBanner lists the first 5)
MaxSuggestions == 6
\* backend: context entries of the session, minutes on the clock, turns
MaxEntries == 2
MaxClock == 160
MaxTurns == 2
MaxSearchAdds == 2

(***************************************************************************)
(* Input domains                                                           *)
(***************************************************************************)
\* callers are only constrained by the type `number`
Quantities == (-1)..MaxQty

\* contents of text_chunk events
Chunks == {"a", "b"}
\* the server's `event: error` carries data, JSON (with or without an error
\* field) or not
ErrorPayloads == { [data |-> "json", error |-> "E1"],
                   [data |-> "json", error |-> Null],
                   [data |-> "invalid", error |-> Null] }

VARIABLES
  hook,           \* one instance of useSSEConnection (see hookInit)
  state,          \* AppState held by useReducer(appReducer, initialState)
  nextCartId,     \* number of ids drawn so far by addToCart
  lastOp,         \* the context function called last, with its arguments
  localStorage,   \* value stored under 'ai_assistant_session_id' (or Null)
  appPhase,       \* "rendered" -> "childEffectsRun" -> "mounted"
  savedSessionId, \* the const captured by the provider's mount effect
  validation,     \* "none" | "pending" | "accepted" | "rejected"
  pendingCreates, \* createSession calls awaiting the POST's response
  requests,       \* requests issued since the page was loaded, per caller
  sessionsCreated,\* backend: number of sessions created so far
  backend,        \* backend: context tracker and turn of one session
  chat            \* ChatInterface: the input value and its sends (see chatInit)

cartVars == <<nextCartId, lastOp>>
sessionVars == <<localStorage, appPhase, savedSessionId, validation,
                 pendingCreates, requests, sessionsCreated>>
vars == <<hook, state, nextCartId, lastOp, localStorage, appPhase, savedSessionId,
          validation, pendingCreates, requests, sessionsCreated, backend,
          chat>>

(***************************************************************************)
(* AppStateContext.tsx: initialState and appReducer                        *)
(***************************************************************************)
initialState ==
  [ sessionId     |-> Null,
    searchResults |-> <<>>,
    searchHistory |-> <<>>,
    cartItems     |-> <<>>,
    cartTotal     |-> 0,
    isLoading     |-> FALSE,
    error         |-> Null ]

\* items.reduce((sum, item) => sum + item.total_price, 0)
RECURSIVE SumTotalPrice(_)
SumTotalPrice(items) ==
  IF items = <<>> THEN 0
  ELSE SumTotalPrice(SubSeq(items, 1, Len(items) - 1)) + items[Len(items)].total_price

\* cartItems.findIndex(item => item.product_id === pid); 0 stands for -1
FindIndexByProduct(items, pid) ==
  IF \E i \in 1..Len(items) : items[i].product_id = pid
  THEN CHOOSE i \in 1..Len(items) :
         /\ items[i].product_id = pid
         /\ \A j \in 1..(i - 1) : items[j].product_id # pid
  ELSE 0

\* newHistory.slice(0, 10)
Slice(seq, n) == SubSeq(seq, 1, IF Len(seq) < n THEN Len(seq) ELSE n)

\* variant of ReduceAddSearchQuery that does not remove the earlier entry of
\* the query
ReduceAddSearchQuery_KeepEarlier(s, q) ==
  [s EXCEPT !.searchHistory = Slice(<<q>> \o s.searchHistory, 10)]

ReduceAddSearchQuery(s, q) ==
  LET Other(x) == x # q
      newHistory == <<q>> \o SelectSeq(s.searchHistory, Other)
  IN  [s EXCEPT !.searchHistory = Slice(newHistory, 10)]

\* variant of ReduceAddToCart that never merges: every add appends a line
ReduceAddToCart_AlwaysAppend(s, payload) ==
  LET updatedItems == Append(s.cartItems, payload)
  IN  [s EXCEPT !.cartItems = updatedItems,
                !.cartTotal = SumTotalPrice(updatedItems)]

ReduceAddToCart(s, payload) ==
  LET existingItemIndex == FindIndexByProduct(s.cartItems, payload.product_id)
      updatedItems ==
        IF existingItemIndex >= 1
        THEN [i \in 1..Len(s.cartItems) |->
                IF i = existingItemIndex
                THEN [s.cartItems[i] EXCEPT
                        !.quantity = s.cartItems[i].quantity + payload.quantity,
                        !.total_price = (s.cartItems[i].quantity + payload.quantity)
                                          * s.cartItems[i].unit_price]
                ELSE s.cartItems[i]]
        ELSE Append(s.cartItems, payload)
      newTotal == SumTotalPrice(updatedItems)
  IN  [s EXCEPT !.cartItems = updatedItems, !.cartTotal = newTotal]

ReduceUpdateCartItem(s, payload) ==
  LET updatedCartItems ==
        [i \in 1..Len(s.cartItems) |->
           IF s.cartItems[i].id = payload.id
           THEN [s.cartItems[i] EXCEPT
                   !.quantity = payload.quantity,
                   !.total_price = payload.quantity * s.cartItems[i].unit_price]
           ELSE s.cartItems[i]]
      updatedTotal == SumTotalPrice(updatedCartItems)
  IN  [s EXCEPT !.cartItems = updatedCartItems, !.cartTotal = updatedTotal]

\* variant of ReduceRemoveFromCart that keeps the previous cartTotal
ReduceRemoveFromCart_StaleTotal(s, id) ==
  LET Other(item) == item.id # id
  IN  [s EXCEPT !.cartItems = SelectSeq(s.cartItems, Other)]

ReduceRemoveFromCart(s, id) ==
  LET Other(item) == item.id # id
      filteredItems == SelectSeq(s.cartItems, Other)
      filteredTotal == SumTotalPrice(filteredItems)
  IN  [s EXCEPT !.cartItems = filteredItems, !.cartTotal = filteredTotal]

ReduceClearCart(s) == [s EXCEPT !.cartItems = <<>>, !.cartTotal = 0]

appReducer(s, action) ==
  CASE action.type = "SET_SESSION_ID"     -> [s EXCEPT !.sessionId = action.payload]
    [] action.type = "SET_SEARCH_RESULTS" -> [s EXCEPT !.searchResults = action.payload]
    [] action.type = "ADD_SEARCH_QUERY"   -> ReduceAddSearchQuery(s, action.payload)
    [] action.type = "ADD_TO_CART"        -> ReduceAddToCart(s, action.payload)
    [] action.type = "UPDATE_CART_ITEM"   -> ReduceUpdateCartItem(s, action.payload)
    [] action.type = "REMOVE_FROM_CART"   -> ReduceRemoveFromCart(s, action.payload)
    [] action.type = "CLEAR_CART"         -> ReduceClearCart(s)
    [] action.type = "SET_LOADING"        -> [s EXCEPT !.isLoading = action.payload]
    [] action.type = "SET_ERROR"          -> [s EXCEPT !.error = action.payload]
    [] OTHER                              -> s

(***************************************************************************)
(* AppStateContext.tsx: the cart functions of the context                  *)
(***************************************************************************)
NoOp == [fn |-> "none"]

\* the items a caller may pass: Omit<CartItem, 'id'>, every field the
\* caller's choice (total_price need not agree with quantity * unit_price)
\* (total_price as passed by a caller: consistent with some quantity or not)
CartInputs ==
  LET Products    == {"p1", "p2"}
      Prices      == {2, 3}
      TotalPrices == {2, 4}
  IN  { [product_id |-> p, quantity |-> q, unit_price |-> u, total_price |-> t] :
          p \in Products, q \in Quantities, u \in Prices, t \in TotalPrices }

addToCart(item) ==
  /\ nextCartId < MaxCartAdds
  /\ LET cartItem == [id |-> nextCartId + 1,
                      product_id |-> item.product_id,
                      quantity |-> item.quantity,
                      unit_price |-> item.unit_price,
                      total_price |-> item.total_price]
     IN  state' = appReducer(state, [type |-> "ADD_TO_CART", payload |-> cartItem])
  /\ nextCartId' = nextCartId + 1
  /\ lastOp' = [fn |-> "addToCart", product_id |-> item.product_id,
                               quantity |-> item.quantity]
  /\ UNCHANGED <<chat, backend, hook, sessionVars>>

removeFromCart(id) ==
  /\ state' = appReducer(state, [type |-> "REMOVE_FROM_CART", payload |-> id])
  /\ lastOp' = [fn |-> "removeFromCart", id |-> id]
  /\ UNCHANGED <<chat, backend, hook, nextCartId, sessionVars>>

updateCartItem(id, quantity) ==
  /\ IF quantity <= 0
     THEN state' = appReducer(state, [type |-> "REMOVE_FROM_CART", payload |-> id])
     ELSE state' = appReducer(state, [type |-> "UPDATE_CART_ITEM",
                                      payload |-> [id |-> id, quantity |-> quantity]])
  /\ lastOp' = [fn |-> "updateCartItem", id |-> id, quantity |-> quantity]
  /\ UNCHANGED <<chat, backend, hook, nextCartId, sessionVars>>

clearCart ==
  /\ state' = appReducer(state, [type |-> "CLEAR_CART"])
  /\ lastOp' = [fn |-> "clearCart"]
  /\ UNCHANGED <<chat, backend, hook, nextCartId, sessionVars>>

\* the queries a user searches for, in the order of a first session
SearchTexts ==
  << "q1", "q2", "q3", "q4", "q5", "q6", "q7", "q8", "q9", "q10", "q11", "q12" >>

\* the history after addSearchQuery of the first n of them, one after the other
RECURSIVE HistoryAfter(_)
HistoryAfter(n) ==
  IF n = 0 THEN initialState
  ELSE appReducer(HistoryAfter(n - 1),
                  [type |-> "ADD_SEARCH_QUERY", payload |-> SearchTexts[n]])

\* (nth: the calls of addSearchQuery made so far)
addSearchQuery(query) ==
  LET calls == IF lastOp.fn = "addSearchQuery" THEN lastOp.nth ELSE 0
  IN  /\ calls < MaxSearchAdds
      /\ state' = appReducer(state, [type |-> "ADD_SEARCH_QUERY", payload |-> query])
      /\ lastOp' = [fn |-> "addSearchQuery", query |-> query, nth |-> calls + 1]
      /\ UNCHANGED <<chat, backend, hook, nextCartId, sessionVars>>

(***************************************************************************)
(* AppStateContext.tsx: createSession and the mount effect                 *)
(* ChatInterface.tsx: the "Initialize session if needed" effect            *)
(***************************************************************************)
NoRequests == [validate |-> 0, createByChatInterface |-> 0, createByProvider |-> 0]

\* createSession up to its await: two dispatches, then the POST is in flight
createSessionBegin(s) ==
  appReducer(appReducer(s, [type |-> "SET_LOADING", payload |-> TRUE]),
             [type |-> "SET_ERROR", payload |-> Null])

\* the id the backend puts in its next OK answer to POST /api/sessions
NextServerId ==
  LET ServerIds == [k \in 1..MaxSessions |-> ToString(k)]
  IN  ServerIds[sessionsCreated + 1]

\* createSession from the POST's answer on: not OK -> return; OK -> adopt and
\* store the new id; fetch throws -> SET_ERROR; finally SET_LOADING false
createSessionRespond(outcome) ==
  /\ appPhase = "mounted"
  /\ pendingCreates > 0
  /\ pendingCreates' = pendingCreates - 1
  /\ CASE outcome = "ok" ->
            /\ sessionsCreated < MaxSessions
            /\ sessionsCreated' = sessionsCreated + 1
            /\ state' = appReducer(
                          appReducer(state, [type |-> "SET_SESSION_ID",
                                             payload |-> NextServerId]),
                          [type |-> "SET_LOADING", payload |-> FALSE])
            /\ localStorage' = NextServerId
       [] outcome = "not_ok" ->
            /\ state' = appReducer(state, [type |-> "SET_LOADING", payload |-> FALSE])
            /\ UNCHANGED <<localStorage, sessionsCreated>>
       [] OTHER ->
            /\ state' = appReducer(
                          appReducer(state, [type |-> "SET_ERROR",
                                             payload |-> "Failed to create session"]),
                          [type |-> "SET_LOADING", payload |-> FALSE])
            /\ UNCHANGED <<localStorage, sessionsCreated>>
  /\ UNCHANGED <<chat, backend, hook, cartVars, appPhase, savedSessionId, validation, requests>>

\* ChatInterface: useEffect(() => { if (!sessionId) createSession(); }, [sessionId])
\* (a child's effects run before its parent's; sessionId never returns to null,
\* so the effect calls createSession at most at mount)
ChatInterfaceInitEffect ==
  /\ appPhase = "rendered"
  /\ appPhase' = "childEffectsRun"
  /\ IF state.sessionId = Null
     THEN /\ state' = createSessionBegin(state)
          /\ pendingCreates' = pendingCreates + 1
          /\ requests' = [requests EXCEPT !.createByChatInterface = @ + 1]
     ELSE UNCHANGED <<state, pendingCreates, requests>>
  /\ UNCHANGED <<chat, backend, hook, cartVars, localStorage, savedSessionId, validation, sessionsCreated>>

\* AppStateProvider mount effect: validateOrCreate up to its first await
ProviderMountEffect ==
  /\ appPhase = "childEffectsRun"
  /\ appPhase' = "mounted"
  /\ savedSessionId' = localStorage
  /\ IF localStorage = Null
     THEN /\ state' = createSessionBegin(state)
          /\ pendingCreates' = pendingCreates + 1
          /\ requests' = [requests EXCEPT !.createByProvider = @ + 1]
          /\ UNCHANGED validation
     ELSE /\ validation' = "pending"
          /\ requests' = [requests EXCEPT !.validate = @ + 1]
          /\ UNCHANGED <<state, pendingCreates>>
  /\ UNCHANGED <<chat, backend, hook, cartVars, localStorage, sessionsCreated>>

\* variant of validateOrCreateRespond without the `!res.ok` branch: only
\* 404 and 410 drop the cached id, any other answer adopts it
validateOrCreateRespond_Only404(outcome) ==
  /\ appPhase = "mounted"
  /\ validation = "pending"
  /\ IF outcome = "404" \/ outcome = "410"
     THEN /\ localStorage' = Null
          /\ state' = createSessionBegin(state)
          /\ pendingCreates' = pendingCreates + 1
          /\ requests' = [requests EXCEPT !.createByProvider = @ + 1]
          /\ validation' = "rejected"
     ELSE /\ state' = appReducer(state, [type |-> "SET_SESSION_ID",
                                         payload |-> savedSessionId])
          /\ validation' = IF outcome = "200" THEN "accepted" ELSE "rejected"
          /\ UNCHANGED <<localStorage, pendingCreates, requests>>
  /\ UNCHANGED <<chat, backend, hook, cartVars, appPhase, savedSessionId, sessionsCreated>>

\* validateOrCreate from the answer to GET /api/sessions/{saved}/context on
validateOrCreateRespond(outcome) ==
  /\ appPhase = "mounted"
  /\ validation = "pending"
  /\ IF outcome = "404" \/ outcome = "410"
     THEN /\ localStorage' = Null
          /\ state' = createSessionBegin(state)
          /\ pendingCreates' = pendingCreates + 1
          /\ requests' = [requests EXCEPT !.createByProvider = @ + 1]
          /\ validation' = "rejected"
     ELSE IF outcome # "200"
     THEN /\ localStorage' = Null
          /\ state' = createSessionBegin(state)
          /\ pendingCreates' = pendingCreates + 1
          /\ requests' = [requests EXCEPT !.createByProvider = @ + 1]
          /\ validation' = "rejected"
     ELSE /\ state' = appReducer(state, [type |-> "SET_SESSION_ID",
                                         payload |-> savedSessionId])
          /\ validation' = "accepted"
          /\ UNCHANGED <<localStorage, pendingCreates, requests>>
  /\ UNCHANGED <<chat, backend, hook, cartVars, appPhase, savedSessionId, sessionsCreated>>

\* the page is loaded again: the provider is constructed anew, requests in
\* flight are dropped, only localStorage (and the backend) persist
PageReload ==
  /\ appPhase = "mounted"
  /\ state' = initialState
  /\ nextCartId' = 0
  /\ lastOp' = NoOp
  /\ appPhase' = "rendered"
  /\ savedSessionId' = Null
  /\ validation' = "none"
  /\ pendingCreates' = 0
  /\ requests' = NoRequests
  /\ UNCHANGED <<chat, backend, hook, localStorage, sessionsCreated>>

(***************************************************************************)
(* useSSEConnection.ts                                                     *)
(*                                                                         *)
(* `hook` holds one instance of the hook: its React state, its refs, and   *)
(* the browser objects it has created (the EventSource it references, its  *)
(* pending timers, the POSTs in flight).  Every function of the hook is an *)
(* operator from a hook value to the hook value after the call, so that a  *)
(* handler that calls other functions is the composition of their effects. *)
(***************************************************************************)
maxReconnectAttempts == 5
baseReconnectDelay == 1000
StopDelay == 250

CONNECTING == 0
OPEN == 1
CLOSED == 2

RECURSIVE Pow2(_)
Pow2(n) == IF n = 0 THEN 1 ELSE 2 * Pow2(n - 1)

hookInit ==
  [ mounted              |-> TRUE,
    sessionId            |-> "",
    messages             |-> <<>>,
    connectionStatus     |-> "disconnected",
    error                |-> Null,
    isTyping             |-> FALSE,
    eventSourceRef       |-> Null,
    readyState           |-> CLOSED,
    openSources          |-> 0,
    reconnectTimeoutRef  |-> Null,
    reconnectAttemptsRef |-> 0,
    abortControllerRef   |-> Null,
    pendingSends         |-> 0,
    rejectedSends        |-> 0,
    timers               |-> EmptyBag,
    lastEvent            |-> "none" ]

\* the EventSource the ref points to can still dispatch events
SourceLive(h) == h.eventSourceRef # Null /\ h.readyState # CLOSED

\* eventSourceRef.current.close()
closeSource(h) ==
  IF SourceLive(h)
  THEN [h EXCEPT !.readyState = CLOSED, !.openSources = @ - 1]
  ELSE h

\* addMessage: setMessages(prev => [...prev, message])
addMessage(h, message) == [h EXCEPT !.messages = Append(@, message)]

\* variant of connect that does not close the EventSource it replaces
connect_KeepOld(h, sid) ==
  IF sid = ""
  THEN h
  ELSE [h EXCEPT !.connectionStatus = "connecting",
                 !.error = Null,
                 !.eventSourceRef = "EventSource",
                 !.readyState = CONNECTING,
                 !.openSources = @ + 1]

\* connect, as created in a render with session id sid (the EventSource
\* constructor does not throw for the URL built from a session id, so the
\* catch branch is not taken)
connect(h, sid) ==
  IF sid = ""
  THEN h
  ELSE LET closed == IF h.eventSourceRef # Null THEN closeSource(h) ELSE h
       IN  [closed EXCEPT !.connectionStatus = "connecting",
                          !.error = Null,
                          !.eventSourceRef = "EventSource",
                          !.readyState = CONNECTING,
                          !.openSources = @ + 1]

\* variant of onopen that leaves the attempt counter as it is
onopen_NoReset(h) ==
  [h EXCEPT !.connectionStatus = "connected", !.error = Null]

\* eventSource.onopen
onopen(h) ==
  [h EXCEPT !.connectionStatus = "connected",
            !.error = Null,
            !.reconnectAttemptsRef = 0]

\* the pending timers other than the one reconnectTimeoutRef holds
NotHeld(timers) == [t \in {x \in DOMAIN timers : ~x.held} |-> timers[t]]

\* scheduleReconnect: the new timer's id overwrites reconnectTimeoutRef
scheduleReconnect(h) ==
  LET delay == baseReconnectDelay * Pow2(h.reconnectAttemptsRef)
      \* the timer reconnectTimeoutRef held stays pending
      released == NotHeld(h.timers) (+)
                    SetToBag({ [t EXCEPT !.held = FALSE] :
                                 t \in {x \in DOMAIN h.timers : x.held} })
      timer == [kind |-> "reconnect", delay |-> delay,
                sid |-> h.sessionId, held |-> TRUE]
  IN  [h EXCEPT !.timers = released (+) SetToBag({timer}),
                !.reconnectTimeoutRef = "Timeout"]

\* the branch both error handlers share
reconnectOrGiveUp(h) ==
  LET errored == [h EXCEPT !.connectionStatus = "error"]
  IN  IF errored.reconnectAttemptsRef < maxReconnectAttempts
      THEN scheduleReconnect(errored)
      ELSE [errored EXCEPT !.error = "Max reconnection attempts reached"]

\* handleErrorEvent
handleErrorEvent(h, data) ==
  LET errorMessage == [type |-> "error",
                       content |-> IF data.error # Null THEN <<data.error>>
                                   ELSE <<"An error occurred">>]
  IN  [addMessage(h, errorMessage) EXCEPT !.error = data.error]

\* eventSource.addEventListener('error', ...): without data the network
\* branch; data JSON.parse rejects is caught and logged
errorListener(h, event) ==
  IF event.data = "none" THEN reconnectOrGiveUp(h)
  ELSE IF event.data = "invalid" THEN h
  ELSE handleErrorEvent(h, event)

\* eventSource.onerror
onerror(h) == reconnectOrGiveUp(h)

\* an event of type 'error' dispatched at the EventSource reaches first the
\* listener added with addEventListener, then the onerror handler
dispatchError(h, event) == onerror(errorListener(h, event))

\* variant of handleTextChunk that extends the first assistant message of the
\* list instead of the last message
handleTextChunk_FirstAssistant(h, data) ==
  LET prev == h.messages
      firsts == { i \in 1..Len(prev) : prev[i].type = "assistant" }
      updated ==
        IF data.partial /\ firsts # {}
        THEN LET k == CHOOSE i \in firsts : \A j \in firsts : i <= j
             IN  [prev EXCEPT ![k].content = @ \o <<data.content>>]
        ELSE Append(prev, [type |-> "assistant", content |-> <<data.content>>])
  IN  [h EXCEPT !.messages = updated, !.isTyping = TRUE]

\* handleTextChunk
handleTextChunk(h, data) ==
  LET prev == h.messages
      n == Len(prev)
      updated ==
        IF data.partial
        THEN IF n > 0 /\ prev[n].type = "assistant"
             THEN [prev EXCEPT ![n].content = @ \o <<data.content>>]
             ELSE Append(prev, [type |-> "assistant", content |-> <<data.content>>])
        ELSE Append(prev, [type |-> "assistant", content |-> <<data.content>>])
  IN  [h EXCEPT !.messages = updated, !.isTyping = TRUE]

\* handleFunctionCall (the onFunctionCall of ChatInterface only logs)
handleFunctionCall(h, data) ==
  addMessage(h, [type |-> "function_call",
                 content |-> <<"Executing", data.function>>,
                 function_call |-> [name |-> data.function,
                                    parameters |-> data.parameters,
                                    result |-> data.result]])

\* variant of handleCompletion that leaves the typing indicator as it is
handleCompletion_KeepTyping(h) == h

\* handleCompletion
handleCompletion(h) == [h EXCEPT !.isTyping = FALSE]

\* disconnect
disconnect(h) ==
  LET h1 == IF h.eventSourceRef # Null
            THEN [closeSource(h) EXCEPT !.eventSourceRef = Null]
            ELSE h
      h2 == IF h1.reconnectTimeoutRef # Null
            THEN [h1 EXCEPT !.timers = NotHeld(@), !.reconnectTimeoutRef = Null]
            ELSE h1
      \* abort(): the POSTs in flight reject with AbortError, which
      \* sendMessage swallows
      h3 == IF h2.abortControllerRef # Null
            THEN [h2 EXCEPT !.abortControllerRef = Null, !.pendingSends = 0]
            ELSE h2
  IN  [h3 EXCEPT !.connectionStatus = "disconnected"]

\* stop
stop(h) ==
  LET timer == [kind |-> "stop", delay |-> StopDelay, sid |-> h.sessionId, held |-> FALSE]
  IN  [disconnect(h) EXCEPT !.isTyping = FALSE,
                            !.error = Null,
                            !.timers = @ (+) SetToBag({timer})]

\* reconnect
reconnect(h) == connect([h EXCEPT !.reconnectAttemptsRef = 0], h.sessionId)

\* the callback of a timer: scheduleReconnect's increments the attempt
\* counter and connects, stop's connects
timerCallback(h, t) ==
  IF t.kind = "reconnect"
  THEN connect([h EXCEPT !.reconnectAttemptsRef = @ + 1], t.sid)
  ELSE connect(h, t.sid)

\* sendMessage up to its await: the user message is added, the POST issued
sendMessageBegin(h, message) ==
  LET h1 == IF h.abortControllerRef = Null
            THEN [h EXCEPT !.abortControllerRef = "AbortController"]
            ELSE h
  IN  [addMessage(h1, [type |-> "user", content |-> <<message>>])
         EXCEPT !.pendingSends = @ + 1]

\* variant of sendMessageEnd whose catch block rethrows after it has added
\* the error message
sendMessageEnd_Rethrow(h, ok) ==
  LET h1 == [h EXCEPT !.pendingSends = @ - 1]
  IN  IF ok THEN h1
      ELSE [addMessage(h1, [type |-> "error",
                            content |-> <<"Message send failed, retry if needed">>])
              EXCEPT !.rejectedSends = @ + 1]

\* sendMessage from the POST's answer on (an aborted POST is dropped by
\* disconnect above).  A rejected fetch and the throw for a non-2xx answer
\* both end in the catch block, which adds the error message and returns:
\* the promise of sendMessage is fulfilled, rejectedSends counts the promises
\* that are rejected
sendMessageEnd(h, ok) ==
  LET h1 == [h EXCEPT !.pendingSends = @ - 1]
  IN  IF ok THEN h1
      ELSE addMessage(h1, [type |-> "error",
                           content |-> <<"Message send failed, retry if needed">>])

\* the unnamed events: the type the browser gives them and their data, which
\* is JSON text (parsed: the value it denotes) or not
MessageEvents ==
  { [type |-> "message", json |-> TRUE,  parsed |-> "heartbeat"],
    [type |-> "message", json |-> TRUE,  parsed |-> "connection"],
    [type |-> "message", json |-> FALSE, parsed |-> Null] }

\* variant of handleSSEEvent that takes any event it is given as a sign of
\* an established connection
handleSSEEvent_MarksConnected(h, data, eventType) ==
  [h EXCEPT !.connectionStatus = "connected", !.isTyping = FALSE]

\* handleSSEEvent: both branches of the switch only log
handleSSEEvent(h, data, eventType) ==
  CASE eventType = "connection" -> h
    [] OTHER -> h

\* eventSource.onmessage: JSON.parse throws on other text, the catch logs
onmessage(h, event) ==
  IF event.json
  THEN handleSSEEvent(h, event.parsed,
                      IF event.type # "" THEN event.type ELSE "message")
  ELSE h

\* clearMessages
clearMessages(h) == [h EXCEPT !.messages = <<>>]

(***************************************************************************)
(* Steps of the hook: calls of its API, React's effects, events of the     *)
(* EventSource, timers and POST answers                                    *)
(***************************************************************************)
Step(h, event) ==
  /\ hook' = [h EXCEPT !.lastEvent = event]
  /\ UNCHANGED <<state, cartVars, sessionVars, backend, chat>>

RoomForMessage == Len(hook.messages) < MaxMessages
RoomForTimers(n) == BagCardinality(hook.timers) + n <= MaxTimers

\* the session id arrives from AppStateContext: the effect on [sessionId] runs
SessionIdSet ==
  /\ hook.mounted /\ hook.sessionId = ""
  /\ LET h == [hook EXCEPT !.sessionId = "s1"]
     IN  Step(IF h.eventSourceRef = Null THEN connect(h, "s1") ELSE h, "session")

\* the effect's cleanup at unmount (registered only with a session id)
Unmount ==
  /\ hook.mounted
  /\ LET h == [hook EXCEPT !.mounted = FALSE]
     IN  Step(IF h.sessionId # "" THEN disconnect(h) ELSE h, "unmount")

\* the EventSource connects: 'open' is dispatched
SourceOpens ==
  /\ SourceLive(hook) /\ hook.readyState = CONNECTING
  /\ Step(onopen([hook EXCEPT !.readyState = OPEN]), "open")

\* the connection fails or drops: the browser either gives up (CLOSED) or
\* retries by itself (CONNECTING), and dispatches an 'error' Event
SourceFails(fatal) ==
  /\ SourceLive(hook)
  /\ RoomForTimers(2)
  /\ LET h == IF fatal THEN closeSource(hook)
              ELSE [hook EXCEPT !.readyState = CONNECTING]
         \* the Event of a network error carries no data
     IN  Step(dispatchError(h, [data |-> "none", error |-> Null]), "network_error")

\* the server sends `event: error` with data
ServerErrorEvent(payload) ==
  /\ SourceLive(hook) /\ hook.readyState = OPEN
  /\ RoomForTimers(2) /\ RoomForMessage
  /\ Step(dispatchError(hook, payload), "error")

TextChunkEvent(data) ==
  /\ SourceLive(hook) /\ hook.readyState = OPEN
  /\ LET n == Len(hook.messages)
     IN  IF data.partial /\ n > 0 /\ hook.messages[n].type = "assistant"
         THEN Len(hook.messages[n].content) < MaxChunks
         ELSE RoomForMessage
  /\ Step(handleTextChunk(hook, data), "text_chunk")

FunctionCallEvent(data) ==
  /\ SourceLive(hook) /\ hook.readyState = OPEN
  /\ RoomForMessage
  /\ Step(handleFunctionCall(hook, data), "function_call")

CompletionEvent ==
  /\ SourceLive(hook) /\ hook.readyState = OPEN
  /\ Step(handleCompletion(hook), "completion")

\* an unnamed event (heartbeat, connection) arrives
MessageEvent(event) ==
  /\ SourceLive(hook) /\ hook.readyState = OPEN
  /\ Step(onmessage(hook, event), "message")

TimerFires(t) ==
  /\ BagIn(t, hook.timers)
  /\ Step(timerCallback([hook EXCEPT !.timers = @ (-) SetToBag({t})], t), "timer")

CallSendMessage ==
  /\ hook.mounted
  /\ RoomForMessage /\ hook.pendingSends < MaxSends
  /\ Step(sendMessageBegin(hook, "hello"), "sendMessage")

SendMessageAnswered(ok) ==
  /\ hook.pendingSends > 0
  /\ ~ok => RoomForMessage
  /\ Step(sendMessageEnd(hook, ok), IF ok THEN "send_ok" ELSE "send_failed")

CallClearMessages ==
  /\ hook.mounted
  /\ Step(clearMessages(hook), "clearMessages")

CallReconnect ==
  /\ hook.mounted
  /\ Step(reconnect(hook), "reconnect")

CallStop ==
  /\ hook.mounted
  /\ RoomForTimers(1)
  /\ Step(stop(hook), "stop")

TimerRecords ==
  [kind : {"reconnect", "stop"}, sid : {"", "s1"}, held : BOOLEAN,
   delay : {StopDelay} \cup { baseReconnectDelay * Pow2(n) :
                               n \in 0..(maxReconnectAttempts - 1) }]

(***************************************************************************)
(* FunctionCallRenderer.tsx and MessageList.tsx                            *)
(*                                                                         *)
(* A function name is a sequence of fragments of text, so that trim() and  *)
(* includes('cart') are computed: " " is white space, "cart" the substring *)
(* the renderer looks for.  A value of type `any` that is only tested for  *)
(* being a string is a string, Null (absent) or ErrorObject (an object).   *)
(* A result is null, or an object whose payload sits at its top level      *)
(* ("flat"), or an object with a `data` object next to its own fields      *)
(* ("data").  The parameters are props no component reads: one token.      *)
(***************************************************************************)
ErrorObject == "[object Object]"
IsString(v) == v \notin {Null, ErrorObject}

NoValidation == [present |-> FALSE, valid |-> TRUE, error |-> Null, suggestions |-> <<>>]
EmptyPayload ==
  [product |-> Null, products |-> 0, cart_item |-> Null, error |-> Null,
   validation |-> NoValidation]
NullResult == [kind |-> "null", own |-> EmptyPayload, data |-> EmptyPayload]

\* name.trim()
RECURSIVE TrimStart(_)
TrimStart(name) ==
  IF name # <<>> /\ name[1] = " " THEN TrimStart(Tail(name)) ELSE name
RECURSIVE TrimEnd(_)
TrimEnd(name) ==
  IF name # <<>> /\ name[Len(name)] = " "
  THEN TrimEnd(SubSeq(name, 1, Len(name) - 1))
  ELSE name
Trim(name) == TrimStart(TrimEnd(name))

\* the keys of FunctionComponents and the component of each
FunctionComponents ==
  [ name \in { <<"search_products">>, <<"show_product_details">>,
               <<"add_to_", "cart">>, <<"get_recommendations">>,
               <<"get_", "cart">>, <<"remove_from_", "cart">> } |->
      CASE name = <<"search_products">> -> "SearchResults"
        [] name = <<"show_product_details">> -> "ProductCard"
        [] name = <<"add_to_", "cart">> -> "CartNotification"
        [] name = <<"get_recommendations">> -> "RecommendationGrid"
        [] OTHER -> "CartView" ]

\* what a render shows: the view, its heading, its text, the suggestions it
\* lists, and the name and parameters it prints
Rendered(view, title, message, suggestions) ==
  [view |-> view, title |-> title, message |-> message,
   suggestions |-> suggestions, name |-> <<>>, parameters |-> Null]

\* the components, from the props the renderer passes
SearchResults(props) ==
  Rendered("SearchResults", "Search Results",
           IF props.products = 0 THEN "No products found." ELSE "products", <<>>)
ProductCard(props) ==
  IF props.product = Null
  THEN Rendered("null", "", "", <<>>)
  ELSE Rendered("ProductCard", props.product, "Add to cart", <<>>)
CartNotification(props) ==
  Rendered("CartNotification", "Added to Cart",
           IF props.cartItem = Null THEN "" ELSE props.cartItem, <<>>)
CartView(props) ==
  Rendered("CartView", "Your Cart", "Your cart is empty.", <<>>)
RecommendationGrid(props) ==
  Rendered("RecommendationGrid", "Recommendations", "No recommendations yet.", <<>>)

ErrorBanner(title, message, suggestions) ==
  Rendered("ErrorBanner", title, message, Slice(suggestions, 5))

\* FunctionCallRenderer({ functionCall })
FunctionCallRenderer(functionCall) ==
  LET name == functionCall.name
      result == functionCall.result
      normalizedName == Trim(name)
      Component ==
        IF normalizedName \in DOMAIN FunctionComponents
        THEN FunctionComponents[normalizedName]
        ELSE IF \E i \in 1..Len(normalizedName) : normalizedName[i] = "cart" THEN "CartView" ELSE Null
      \* result?.data || result || {}
      raw == CASE result.kind = "data" -> result.data
               [] result.kind = "flat" -> result.own
               [] OTHER -> EmptyPayload
      mappedProps ==
        [product |-> raw.product, products |-> raw.products,
         cartItem |-> IF normalizedName = <<"add_to_", "cart">>
                      THEN raw.cart_item ELSE Null]
      rawValidation == raw.validation
      hasValidationError ==
        /\ normalizedName = <<"show_product_details">>
        /\ \/ raw.product = Null
           \/ rawValidation.present /\ ~rawValidation.valid
      genericError == IF IsString(raw.error) THEN raw.error ELSE Null
  IN  IF Component = Null
      THEN [Rendered("Unknown", "Unknown Function Call", "not implemented", <<>>)
              EXCEPT !.name = name, !.parameters = functionCall.parameters]
      ELSE IF genericError # Null
      THEN ErrorBanner("Validation Error", genericError, <<>>)
      ELSE IF hasValidationError
      THEN ErrorBanner("Invalid Product ID",
                       IF rawValidation.present /\ rawValidation.error # Null
                       THEN rawValidation.error
                       ELSE "Product not found or not in recent searches.",
                       IF rawValidation.present THEN rawValidation.suggestions ELSE <<>>)
      ELSE CASE Component = "SearchResults" -> SearchResults(mappedProps)
             [] Component = "ProductCard" -> ProductCard(mappedProps)
             [] Component = "CartNotification" -> CartNotification(mappedProps)
             [] Component = "RecommendationGrid" -> RecommendationGrid(mappedProps)
             [] OTHER -> CartView(mappedProps)

\* MessageList: the messages it maps to bubbles
visibleMessages(messages) ==
  LET \* m.content.toLowerCase().includes('message send failed'), on the
      \* texts the hook puts into error messages
      IncludesSendFailed(content) ==
        content = <<"Message send failed, retry if needed">>
      Shown(m) == ~(m.type = "error" /\ IncludesSendFailed(m.content))
  IN  SelectSeq(messages, Shown)

\* inputs of the renderer: function names, parameters, results
Parameters == "parameters"
Suggestions(n) == [i \in 1..n |-> ToString(i)]
Contents ==
  { EmptyPayload,
    [EmptyPayload EXCEPT !.product = "Smart Camera"],
    [EmptyPayload EXCEPT !.products = 1],
    [EmptyPayload EXCEPT !.cart_item = "2 x Wireless Headphones"] }
Errors == {Null, "Insufficient stock", ErrorObject}
Results ==
  LET Validations ==
        {NoValidation} \cup
          [present : {TRUE}, valid : BOOLEAN,
           error : {Null, "Product ID not found in recent searches"},
           suggestions : { Suggestions(n) : n \in 0..MaxSuggestions }]
      Payloads ==
        { [c EXCEPT !.error = e, !.validation = v] :
            c \in Contents, e \in Errors, v \in Validations }
      \* the fields an object may carry next to its `data`
      OwnFields ==
        { [EmptyPayload EXCEPT !.error = e, !.validation = v] :
            e \in Errors,
            v \in {NoValidation,
                   [present |-> TRUE, valid |-> FALSE,
                    error |-> "Product ID not found in recent searches",
                    suggestions |-> Suggestions(MaxSuggestions)]} }
  IN  {NullResult}
        \cup { [kind |-> "flat", own |-> p, data |-> EmptyPayload] : p \in Payloads }
        \cup { [kind |-> "data", own |-> o, data |-> d] :
                 o \in OwnFields, d \in Contents }
FunctionCallData ==
  LET FunctionNames ==
        DOMAIN FunctionComponents \cup
          { <<"update_", "cart">>, <<"unknown_function">>,
            <<" ", "search_products", " ">>, <<>> }
  IN  [function : FunctionNames, parameters : {Parameters}, result : Results]

\* a function_call event arriving in an empty chat
FunctionCallArrives(data) ==
  /\ hook.messages = <<>>
  /\ FunctionCallEvent(data)

(***************************************************************************)
(* Backend                                                                 *)
(*                                                                         *)
(* The backend's code is not among the sources.  validate_product_id and   *)
(* _calculate_similarity are translated from the excerpts of               *)
(* backend/context_manager.py quoted in the repository's documentation;    *)
(* the recording and sweeping of context entries, the ranking of the       *)
(* suggestions and the turn state machine follow the specification         *)
(* (sections 4.2 and 4.3).  An identifier is the sequence of its           *)
(* characters, a score the fraction num/den, time is counted in minutes.   *)
(***************************************************************************)
ValidationWindow == 30
CleanupHorizon == 120
TopK == 5

\* identifiers of the catalog, the lists a search returns, the identifiers
\* a tool call may carry, and the time that passes between two calls
P1 == <<"p", "1">>
P2 == <<"p", "2">>
Durations == {20, 100}


\* _calculate_similarity
calculate_similarity(str1, str2) ==
  LET Chars(str) == { str[i] : i \in 1..Len(str) }
      common_chars == Chars(str1) \cap Chars(str2)
      total_chars == Chars(str1) \cup Chars(str2)
  IN  IF total_chars = {} THEN [num |-> 0, den |-> 1]
      ELSE [num |-> Cardinality(common_chars), den |-> Cardinality(total_chars)]

\* sorted(valid_product_ids, key=similarity, reverse=True): stable,
\* descending
RECURSIVE RankBySimilarity(_, _)
RankBySimilarity(invalid_product_id, valid_product_ids) ==
  IF valid_product_ids = <<>> THEN <<>>
  ELSE LET n == Len(valid_product_ids)
           last == valid_product_ids[n]
           ranked == RankBySimilarity(invalid_product_id,
                                      SubSeq(valid_product_ids, 1, n - 1))
           Score(id) == calculate_similarity(invalid_product_id, id)
           ScoreLess(a, b) == a.num * b.den < b.num * a.den
           \* last goes behind every id that does not score less than it
           k == Cardinality({ i \in 1..Len(ranked) :
                                ~ScoreLess(Score(ranked[i]), Score(last)) })
       IN  SubSeq(ranked, 1, k) \o <<last>> \o SubSeq(ranked, k + 1, Len(ranked))

\* _generate_product_suggestions: the top K of the ranking
generate_product_suggestions(invalid_product_id, valid_product_ids) ==
  Slice(RankBySimilarity(invalid_product_id, valid_product_ids), TopK)

RECURSIVE AllResults(_)
AllResults(contexts) ==
  IF contexts = <<>> THEN <<>>
  ELSE contexts[1].results \o AllResults(Tail(contexts))

InResults(product_id, results) ==
  \E i \in 1..Len(results) : results[i] = product_id

\* the contexts of the session inside the validation window
RecentContexts(entries, now) ==
  LET cutoff_time == now - ValidationWindow
      Recent(context) == context.timestamp >= cutoff_time
  IN  SelectSeq(entries, Recent)

\* variant of validate_product_id that draws the suggestions from the first
\* recent context only
validate_product_id_FirstContextOnly(entries, now, product_id) ==
  LET search_contexts == RecentContexts(entries, now)
      Found(context) == InResults(product_id, context.results)
      found == SelectSeq(search_contexts, Found)
      all_product_ids == IF search_contexts = <<>> THEN <<>>
                         ELSE search_contexts[1].results
  IN  IF found # <<>>
      THEN [valid |-> TRUE, suggestions |-> <<>>]
      ELSE [valid |-> FALSE,
            suggestions |-> generate_product_suggestions(product_id, all_product_ids)]

\* validate_product_id
validate_product_id(entries, now, product_id) ==
  LET search_contexts == RecentContexts(entries, now)
      Found(context) == InResults(product_id, context.results)
      found == SelectSeq(search_contexts, Found)
      all_product_ids == AllResults(search_contexts)
  IN  IF found # <<>>
      THEN [valid |-> TRUE, suggestions |-> <<>>]
      ELSE [valid |-> FALSE,
            suggestions |-> generate_product_suggestions(product_id, all_product_ids)]

\* events of a turn
NoCall == [function |-> Null, parameters |-> Null, result |-> Null]
TextChunk(partial) == [type |-> "text_chunk", partial |-> partial, call |-> NoCall]
ToolCall(function, result) ==
  [type |-> "function_call", partial |-> FALSE,
   call |-> [function |-> function, parameters |-> Parameters, result |-> result]]
TurnComplete == [type |-> "completion", partial |-> FALSE, call |-> NoCall]

Tools == {"search_products", "show_product_details", "get_recommendations",
          "add_to_cart", "update_cart", "remove_from_cart"}
\* cart mutations triggered by direct UI action
SilentTools == {"add_to_cart", "update_cart", "remove_from_cart"}
ToolResults == {"success", "validation_error"}

backendInit ==
  [ entries      |-> <<>>,    \* ContextEntry records of the session
    now          |-> 0,
    everReturned |-> {},      \* identifiers any search has returned
    lastCall     |-> [product_id |-> <<>>, valid |-> TRUE, suggestions |-> <<>>],
    lastStep     |-> "none",
    turnState    |-> "Idle",
    tool         |-> Null,
    turns        |-> 0,
    turnEvents   |-> <<>>,    \* events published in the current turn
    search       |-> [ query |-> <<>>, fuzzy |-> FALSE,
                       corrected_query |-> <<>>, items |-> <<>> ],
    tokensBuiltAt |-> -1 ]    \* when the token corpus was cached

BackendStep(b, step) ==
  /\ backend' = [b EXCEPT !.lastStep = step]
  /\ UNCHANGED <<hook, state, cartVars, sessionVars, chat>>

\* ContextTracker.record, called by a search with the identifiers it returns
RecordSearch(results) ==
  /\ Len(backend.entries) < MaxEntries
  /\ BackendStep([backend EXCEPT
                    !.entries = Append(@, [search_query |-> "query",
                                           results |-> results,
                                           timestamp |-> backend.now]),
                    !.everReturned = @ \cup { results[i] : i \in 1..Len(results) }],
                 "record")

\* time passes
TimePasses(d) ==
  /\ backend.now + d <= MaxClock
  /\ BackendStep([backend EXCEPT !.now = @ + d], "time")

\* the sweep of entries older than the cleanup horizon
Sweep ==
  LET Kept(context) == context.timestamp >= backend.now - CleanupHorizon
  IN  BackendStep([backend EXCEPT !.entries = SelectSeq(@, Kept)], "sweep")

\* a tool call carrying an identifier validates it
ValidateProductId(product_id) ==
  LET r == validate_product_id(backend.entries, backend.now, product_id)
  IN  BackendStep([backend EXCEPT
                     !.lastCall = [product_id |-> product_id, valid |-> r.valid,
                                   suggestions |-> r.suggestions]],
                  "validate")

Publish(b, event) == [b EXCEPT !.turnEvents = Append(@, event)]

\* Idle -> Planning: a user message arrives
ReceiveMessage ==
  /\ backend.turnState = "Idle"
  /\ backend.turns < MaxTurns
  /\ BackendStep([backend EXCEPT !.turnState = "Planning", !.turns = @ + 1,
                                 !.tool = Null, !.turnEvents = <<>>], "message")

\* Planning -> NarratingText, or -> ExecutingTool for a silent tool
Plan(tool) ==
  /\ backend.turnState = "Planning"
  /\ BackendStep([backend EXCEPT
                    !.tool = tool,
                    !.turnState = IF tool \in SilentTools THEN "ExecutingTool"
                                  ELSE "NarratingText"], "plan")

\* NarratingText: one more partial chunk
NarratePartial ==
  /\ backend.turnState = "NarratingText"
  /\ Len(backend.turnEvents) < MaxChunks
  /\ BackendStep(Publish(backend, TextChunk(TRUE)), "narrate")

\* NarratingText -> ExecutingTool: the final chunk, after at least one
\* partial chunk
NarrateFinal ==
  /\ backend.turnState = "NarratingText"
  /\ backend.turnEvents # <<>>
  /\ BackendStep([Publish(backend, TextChunk(FALSE)) EXCEPT
                    !.turnState = "ExecutingTool"], "narrate")

\* variant of ExecuteTool that publishes the ToolCall event twice
ExecuteTool_Twice(result) ==
  /\ backend.turnState = "ExecutingTool"
  /\ BackendStep([Publish(Publish(backend, ToolCall(backend.tool, result)),
                          ToolCall(backend.tool, result))
                    EXCEPT !.turnState = "Completed"], "execute")

\* ExecutingTool -> Completed: the ToolCall event, then TurnComplete
ExecuteTool(result) ==
  /\ backend.turnState = "ExecutingTool"
  /\ BackendStep([Publish(Publish(backend, ToolCall(backend.tool, result)),
                          TurnComplete)
                    EXCEPT !.turnState = "Completed"], "execute")

\* Completed -> Idle
TurnReturnsToIdle ==
  /\ backend.turnState = "Completed"
  /\ BackendStep([backend EXCEPT !.turnState = "Idle"], "idle")

\* an exception during planning, narration or execution: -> Failed with an
\* Error event
TurnFails ==
  /\ backend.turnState \in {"Planning", "NarratingText", "ExecutingTool"}
  /\ BackendStep([Publish(backend, [type |-> "error", partial |-> FALSE,
                                    call |-> NoCall]) EXCEPT !.turnState = "Failed"],
                 "fail")

\* Failed behaves as Completed: the session is ready for the next turn
FailedReturnsToIdle ==
  /\ backend.turnState = "Failed"
  /\ BackendStep([backend EXCEPT !.turnState = "Idle"], "idle")

(***************************************************************************)
(* The fuzzy catalog search of the backend (search_products).  Strings are *)
(* sequences of one-character strings; the catalog is the seed.  A value   *)
(* that is used more than once is bound over a singleton set, x \in {e}.   *)
(***************************************************************************)
\* the rows of the seed: product_id and name, the name as its characters
SeedCatalog ==
  << [ product_id |-> "prod_001",
       name |-> <<"W","i","r","e","l","e","s","s"," ","B","l","u","e","t","o","o","t","h"," ","H","e","a","d","p","h","o","n","e","s">> ],
     [ product_id |-> "prod_002",
       name |-> <<"S","m","a","r","t","p","h","o","n","e"," ","P","r","o","t","e","c","t","i","v","e"," ","C","a","s","e">> ],
     [ product_id |-> "prod_003",
       name |-> <<"1","0","0","%"," ","O","r","g","a","n","i","c"," ","C","o","t","t","o","n"," ","T","-","S","h","i","r","t">> ],
     [ product_id |-> "prod_004",
       name |-> <<"S","m","a","r","t"," ","H","o","m","e"," ","S","e","c","u","r","i","t","y"," ","C","a","m","e","r","a">> ],
     [ product_id |-> "prod_005",
       name |-> <<"E","r","g","o","n","o","m","i","c"," ","O","f","f","i","c","e"," ","C","h","a","i","r">> ],
     [ product_id |-> "prod_006",
       name |-> <<"B","e","s","t","s","e","l","l","i","n","g"," ","M","y","s","t","e","r","y"," ","N","o","v","e","l">> ],
     [ product_id |-> "prod_007",
       name |-> <<"P","r","o","f","e","s","s","i","o","n","a","l"," ","T","e","n","n","i","s"," ","R","a","c","k","e","t">> ],
     [ product_id |-> "prod_008",
       name |-> <<"N","a","t","u","r","a","l"," ","F","a","c","e"," ","M","o","i","s","t","u","r","i","z","e","r">> ],
     [ product_id |-> "prod_009",
       name |-> <<"G","a","m","i","n","g"," ","M","e","c","h","a","n","i","c","a","l"," ","K","e","y","b","o","a","r","d">> ],
     [ product_id |-> "prod_010",
       name |-> <<"S","t","a","i","n","l","e","s","s"," ","S","t","e","e","l"," ","W","a","t","e","r"," ","B","o","t","t","l","e">> ],
     [ product_id |-> "prod_011",
       name |-> <<"B","u","d","g","e","t"," ","O","f","f","i","c","e"," ","K","e","y","b","o","a","r","d">> ],
     [ product_id |-> "prod_012",
       name |-> <<"6","0","%"," ","M","e","c","h","a","n","i","c","a","l"," ","K","e","y","b","o","a","r","d">> ],
     [ product_id |-> "prod_013",
       name |-> <<"W","i","r","e","l","e","s","s"," ","M","o","u","s","e">> ],
     [ product_id |-> "prod_014",
       name |-> <<"4","K"," ","U","H","D"," ","M","o","n","i","t","o","r"," ","2","7","\"">> ],
     [ product_id |-> "prod_015",
       name |-> <<"U","l","t","r","a","b","o","o","k"," ","L","a","p","t","o","p"," ","1","4","\"">> ],
     [ product_id |-> "prod_016",
       name |-> <<"G","a","m","i","n","g"," ","L","a","p","t","o","p"," ","1","5",".","6","\"">> ],
     [ product_id |-> "prod_017",
       name |-> <<"B","l","u","e","t","o","o","t","h"," ","S","p","e","a","k","e","r">> ],
     [ product_id |-> "prod_018",
       name |-> <<"M","e","c","h","a","n","i","c","a","l"," ","K","e","y","b","o","a","r","d"," ","U","n","d","e","r"," ","$","5","0">> ],
     [ product_id |-> "prod_019",
       name |-> <<"P","r","e","m","i","u","m"," ","M","e","c","h","a","n","i","c","a","l"," ","K","e","y","b","o","a","r","d">> ],
     [ product_id |-> "prod_020",
       name |-> <<"W","i","r","e","l","e","s","s"," ","K","e","y","b","o","a","r","d"," ","a","n","d"," ","M","o","u","s","e"," ","C","o","m","b","o">> ] >>

CutoffTenths == 8   \* cutoff=0.8
CacheTTL == 1       \* 60 s, in the minutes of the clock

\* str.lower and the case folding of ILIKE, on the characters that occur
Lower(s) ==
  [ i \in 1..Len(s) |->
      CASE s[i] = "B" -> "b" [] s[i] = "C" -> "c" [] s[i] = "D" -> "d"
        [] s[i] = "E" -> "e" [] s[i] = "F" -> "f" [] s[i] = "G" -> "g"
        [] s[i] = "H" -> "h" [] s[i] = "K" -> "k" [] s[i] = "L" -> "l"
        [] s[i] = "M" -> "m" [] s[i] = "N" -> "n" [] s[i] = "O" -> "o"
        [] s[i] = "P" -> "p" [] s[i] = "R" -> "r" [] s[i] = "S" -> "s"
        [] s[i] = "T" -> "t" [] s[i] = "U" -> "u" [] s[i] = "W" -> "w"
        [] OTHER -> s[i] ]

\* str.split(): the maximal runs of characters other than white space, in
\* their order
split(s) ==
  LET Starts(i) == s[i] # " " /\ (i = 1 \/ s[i - 1] = " ")
      Ends(i)   == s[i] # " " /\ (i = Len(s) \/ s[i + 1] = " ")
      Word(i)   == SubSeq(s, i, CHOOSE e \in i..Len(s) :
                                  Ends(e) /\ \A t \in i..(e - 1) : ~Ends(t))
  IN  [ k \in 1..Cardinality({ i \in 1..Len(s) : Starts(i) }) |->
          Word(CHOOSE i \in 1..Len(s) :
                 /\ Starts(i)
                 /\ Cardinality({ j \in 1..(i - 1) : Starts(j) }) = k - 1) ]

\* " ".join(words)
RECURSIVE join(_)
join(words) ==
  IF words = <<>> THEN <<>>
  ELSE IF Len(words) = 1 THEN words[1]
  ELSE words[1] \o <<" ">> \o join(Tail(words))

\* the token corpus: the distinct lower-case words of the product names
build_tokens ==
  UNION { { words[i] : i \in 1..Len(words) } :
            words \in { split(name) :
                          name \in { Lower(SeedCatalog[n].name) :
                                       n \in 1..Len(SeedCatalog) } } }

\* SequenceMatcher.find_longest_match: the longest common block, the one
\* starting earliest in a and, among those, earliest in b
find_longest_match(a, alo, ahi, b, blo, bhi) ==
  LET \* a[i .. i+k-1] and b[j .. j+k-1] lie in the ranges and are equal
      Common(i, j, k) ==
        /\ i + k - 1 <= ahi
        /\ j + k - 1 <= bhi
        /\ \A t \in 0..(k - 1) : a[i + t] = b[j + t]
      Longest ==
        { k \in 0..(ahi - alo + 1) :
            /\ \E i \in alo..ahi, j \in blo..bhi : Common(i, j, k)
            /\ ~ \E i \in alo..ahi, j \in blo..bhi : Common(i, j, k + 1) }
  IN  CHOOSE m \in { [ i |-> i, j |-> j, k |-> k ] :
                       i \in alo..ahi, j \in blo..bhi, k \in Longest } :
        /\ Common(m.i, m.j, m.k)
        /\ \A i \in alo..ahi, j \in blo..bhi :
             Common(i, j, m.k) => (m.i < i \/ (m.i = i /\ m.j <= j))

\* the number of matched characters (the sum of get_matching_blocks): the
\* longest block, then the same to its left and to its right
RECURSIVE Matches(_, _, _, _, _, _)
Matches(a, alo, ahi, b, blo, bhi) ==
  IF alo > ahi \/ blo > bhi THEN 0
  ELSE CHOOSE n \in
         { IF m.k = 0 THEN 0
           ELSE m.k + Matches(a, alo, m.i - 1, b, blo, m.j - 1)
                    + Matches(a, m.i + m.k, ahi, b, m.j + m.k, bhi) :
             m \in { find_longest_match(a, alo, ahi, b, blo, bhi) } } : TRUE

\* SequenceMatcher(a, b).ratio() = 2.0 * M / T, as the fraction <<2M, T>>
ratio(a, b) ==
  IF Len(a) + Len(b) = 0 THEN <<1, 1>>
  ELSE <<2 * Matches(a, 1, Len(a), b, 1, Len(b)), Len(a) + Len(b)>>

\* SequenceMatcher.real_quick_ratio: the bound from the lengths alone
real_quick_ratio(a, b) ==
  IF Len(a) + Len(b) = 0 THEN <<1, 1>>
  ELSE <<2 * (IF Len(a) < Len(b) THEN Len(a) ELSE Len(b)), Len(a) + Len(b)>>

\* SequenceMatcher.quick_ratio: the bound from the characters in common,
\* whatever their order; a character of a counts while b has occurrences of
\* it left
quick_ratio(a, b) ==
  LET available(i) == Cardinality({ j \in 1..Len(b) : b[j] = a[i] })
                        - Cardinality({ j \in 1..(i - 1) : a[j] = a[i] })
  IN  IF Len(a) + Len(b) = 0 THEN <<1, 1>>
      ELSE <<2 * Cardinality({ i \in 1..Len(a) : available(i) > 0 }),
             Len(a) + Len(b)>>

AtCutoff(r) == r[1] * 10 >= CutoffTenths * r[2]

\* difflib.get_close_matches(word, possibilities, n=1, cutoff=0.8): the
\* candidate of the largest (ratio, candidate) among those at the cutoff;
\* candidates of equal ratio are compared as str values, by code point
get_close_matches(word, possibilities) ==
  LET CodePoint(c) ==
        CASE c = "a" -> 97  [] c = "b" -> 98  [] c = "c" -> 99  [] c = "d" -> 100
          [] c = "e" -> 101 [] c = "f" -> 102 [] c = "g" -> 103 [] c = "h" -> 104
          [] c = "i" -> 105 [] c = "j" -> 106 [] c = "k" -> 107 [] c = "l" -> 108
          [] c = "m" -> 109 [] c = "n" -> 110 [] c = "o" -> 111 [] c = "p" -> 112
          [] c = "q" -> 113 [] c = "r" -> 114 [] c = "s" -> 115 [] c = "t" -> 116
          [] c = "u" -> 117 [] c = "v" -> 118 [] c = "w" -> 119 [] c = "x" -> 120
          [] c = "y" -> 121 [] c = "z" -> 122 [] c = "\"" -> 34 [] c = "$" -> 36
          [] c = "%" -> 37  [] c = "-" -> 45  [] c = "." -> 46  [] c = "0" -> 48
          [] c = "1" -> 49  [] c = "2" -> 50  [] c = "4" -> 52  [] c = "5" -> 53
          [] c = "6" -> 54  [] c = "7" -> 55
      StrLess(x, y) ==
        \E i \in 1..Len(y) :
          /\ \A j \in 1..(i - 1) : j <= Len(x) /\ x[j] = y[j]
          /\ \/ i = Len(x) + 1
             \/ i <= Len(x) /\ CodePoint(x[i]) < CodePoint(y[i])
      Below(c, d) == \/ c.score[1] * d.score[2] < d.score[1] * c.score[2]
                     \/ c.score[1] * d.score[2] = d.score[1] * c.score[2]
                        /\ StrLess(c.x, d.x)
      Best(close) == { c \in close : \A d \in close : d = c \/ Below(d, c) }
  IN  CHOOSE result \in
        { IF close = {} THEN <<>> ELSE <<(CHOOSE c \in Best(close) : TRUE).x>> :
            close \in
              { { c \in { [ score |-> ratio(x, word), x |-> x ] :
                            x \in { y \in possibilities :
                                      /\ AtCutoff(real_quick_ratio(y, word))
                                      /\ AtCutoff(quick_ratio(y, word)) } } :
                    AtCutoff(c.score) } } } : TRUE

\* select(Product).where(Product.name.ilike(f"%{query}%"))
Select(query) ==
  LET ilike(name) ==
        \E s \in {Lower(name)}, q \in {Lower(query)} :
          \E i \in 0..(Len(s) - Len(q)) : SubSeq(s, i + 1, i + Len(q)) = q
  IN  SelectSeq(SeedCatalog, LAMBDA p : ilike(p.name))

\* corrected_tokens: for each token, matches[0] if matches else token
CorrectTokens(words, tokens) ==
  [ i \in 1..Len(words) |->
      Head(get_close_matches(words[i], tokens) \o << words[i] >>) ]

\* search_products: the items it returns, with the corrected query it used
\* (the query itself when the direct search answered)
search_products(query) ==
  LET fallback ==
        { [ fuzzy |-> TRUE, corrected_query |-> corrected_query,
            items |-> Select(corrected_query) ] :
            corrected_query \in
              { join(corrected_tokens) :
                  corrected_tokens \in
                    { CorrectTokens(words, tokens) :
                        words \in {split(query)}, tokens \in {build_tokens} } } }
  IN  CHOOSE found \in
        { IF items = <<>> /\ query # <<>>
          THEN CHOOSE r \in fallback : TRUE
          ELSE [ fuzzy |-> FALSE, corrected_query |-> query, items |-> items ] :
            items \in {Select(query)} } : TRUE

\* the queries: nothing, one typed word, or two separated by a space; some
\* of the words are misspelt
SearchQueries ==
  LET wireles   == <<"w","i","r","e","l","e","s">>
      hedphones == <<"h","e","d","p","h","o","n","e","s">>
      keybord   == <<"k","e","y","b","o","r","d">>
      Mouse     == <<"M","o","u","s","e">>
  IN  { <<>>, wireles, hedphones, keybord, Mouse,
        wireles \o <<" ">> \o hedphones, keybord \o <<" ">> \o Mouse }

\* a call of search_products; the token corpus is rebuilt when the fuzzy
\* fallback needs it and the cached one is older than the TTL
SearchProducts(query) ==
  \E found \in {search_products(query)} :
    LET expired == \/ backend.tokensBuiltAt = -1
                   \/ backend.now - backend.tokensBuiltAt >= CacheTTL
        ids     == [ i \in 1..Len(found.items) |-> found.items[i].product_id ]
    IN  BackendStep([backend EXCEPT
                       !.search = [ query |-> query, fuzzy |-> found.fuzzy,
                                    corrected_query |-> found.corrected_query,
                                    items |-> ids ],
                       !.tokensBuiltAt = IF found.fuzzy /\ expired
                                         THEN backend.now ELSE @],
                    "search_products")


(***************************************************************************)
(* ChatInterface and MessageInput: the input value, the Send button, the   *)
(* key presses and handleSendMessage.  A value is a sequence of text       *)
(* fragments, " " being white space.                                       *)
(***************************************************************************)
RetryDelay == 250

NoInput == [ control |-> "none", key |-> "", shiftKey |-> FALSE, sent |-> FALSE ]

chatInit ==
  [ inputValue |-> <<>>,     \* useState('')
    lastInput  |-> NoInput,  \* the control used last; sent: it called onSend
    sending    |-> <<>> ]    \* the calls of handleSendMessage at an await

\* value.trim() as a condition: the trimmed value is not the empty string
NonBlank(value) == Trim(value) # <<>>

\* disabled={connectionStatus !== 'connected'}
MessageInputDisabled(h) == h.connectionStatus # "connected"

\* handleKeyPress: TRUE iff it calls onSend(value)
handleKeyPress(value, disabled, e) ==
  IF e.key = "Enter" /\ ~e.shiftKey
  THEN NonBlank(value) /\ ~disabled
  ELSE FALSE

\* variant of handleSend without the check of disabled
handleSend_IgnoreDisabled(value, disabled) == NonBlank(value)

\* handleSend: TRUE iff it calls onSend(value)
handleSend(value, disabled) == NonBlank(value) /\ ~disabled

\* handleSendMessage up to its first await
handleSendMessageBegin(h, c, message) ==
  IF NonBlank(message) /\ h.sessionId # ""
  THEN [ hook |-> sendMessageBegin(h, Trim(message)[1]),
         chat |-> [c EXCEPT !.sending =
                     Append(@, [ message |-> message, attempt |-> 1,
                                 phase |-> "sendMessage", delay |-> 0 ])] ]
  ELSE [ hook |-> h, chat |-> c ]

\* handleSendMessage from an await on.  After sendMessage: a fulfilled
\* promise clears the input; a rejected first attempt waits 250 ms; a
\* rejected second attempt is logged.  After the wait: the second attempt.
handleSendMessageResume(h, c, i, ok) ==
  LET call == c.sending[i]
      Without(s, k) == SubSeq(s, 1, k - 1) \o SubSeq(s, k + 1, Len(s))
  IN  IF call.phase = "sendMessage"
      THEN LET h1       == sendMessageEnd(h, ok)
               rejected == h1.rejectedSends > h.rejectedSends
           IN  IF ~rejected
               THEN [ hook |-> h1,
                      chat |-> [c EXCEPT !.inputValue = <<>>,
                                         !.sending = Without(@, i)] ]
               ELSE IF call.attempt = 1
               THEN [ hook |-> h1,
                      chat |-> [c EXCEPT !.sending[i].phase = "setTimeout",
                                         !.sending[i].delay = RetryDelay] ]
               ELSE [ hook |-> h1,
                      chat |-> [c EXCEPT !.sending = Without(@, i)] ]
      ELSE [ hook |-> sendMessageBegin(h, Trim(call.message)[1]),
             chat |-> [c EXCEPT !.sending[i] =
                         [call EXCEPT !.attempt = 2, !.phase = "sendMessage",
                                      !.delay = 0]] ]

ChatStep(r, event) ==
  /\ hook' = [r.hook EXCEPT !.lastEvent = event]
  /\ chat' = r.chat
  /\ UNCHANGED <<state, cartVars, sessionVars, backend>>

\* the bounds let one more message be sent
RoomForSend == RoomForMessage /\ hook.pendingSends < MaxSends

\* onChange: the user edits the value
TypeInput(value) ==
  /\ hook.mounted
  /\ value # chat.inputValue
  /\ ChatStep([ hook |-> hook,
                chat |-> [chat EXCEPT !.inputValue = value,
                                      !.lastInput = NoInput] ], "change")

\* onKeyPress on the textarea
KeyPress(e) ==
  LET sent == handleKeyPress(chat.inputValue, MessageInputDisabled(hook), e)
      c    == [chat EXCEPT !.lastInput = [ control |-> "textarea", key |-> e.key,
                                           shiftKey |-> e.shiftKey, sent |-> sent ]]
  IN  /\ hook.mounted
      /\ sent => RoomForSend
      /\ ChatStep(IF sent THEN handleSendMessageBegin(hook, c, chat.inputValue)
                  ELSE [ hook |-> hook, chat |-> c ], "keypress")

\* onClick on the Send button
ClickSend ==
  LET sent == handleSend(chat.inputValue, MessageInputDisabled(hook))
      c    == [chat EXCEPT !.lastInput = [ control |-> "button", key |-> "",
                                           shiftKey |-> FALSE, sent |-> sent ]]
  IN  /\ hook.mounted
      /\ sent => RoomForSend
      /\ ChatStep(IF sent THEN handleSendMessageBegin(hook, c, chat.inputValue)
                  ELSE [ hook |-> hook, chat |-> c ], "click")

\* an await of handleSendMessage ends: the POST is answered, or the 250 ms
\* of the retry have passed
SendResumes(i, ok) ==
  /\ i \in 1..Len(chat.sending)
  /\ IF chat.sending[i].phase = "sendMessage"
     THEN hook.pendingSends > 0 /\ (~ok => RoomForMessage)
     ELSE ok /\ RoomForSend
  /\ ChatStep(handleSendMessageResume(hook, chat, i, ok),
              IF chat.sending[i].phase = "setTimeout" THEN "retry"
              ELSE IF ok THEN "send_ok" ELSE "send_failed")


(***************************************************************************)
(* A turn streamed to a connected client: every event the turn publishes   *)
(* is handled by the hook as it is published.                              *)
(***************************************************************************)
StreamStep(b, h, step) ==
  /\ backend' = [b EXCEPT !.lastStep = step]
  /\ hook' = [h EXCEPT !.lastEvent = step]
  /\ UNCHANGED <<state, cartVars, sessionVars, chat>>

Connected == SourceLive(hook) /\ hook.readyState = OPEN

\* a partial chunk with content c is published and handled
StreamPartial(c) ==
  /\ Connected
  /\ backend.turnState = "NarratingText"
  /\ Len(backend.turnEvents) < MaxChunks
  /\ StreamStep(Publish(backend, TextChunk(TRUE) @@ [content |-> c]),
                handleTextChunk(hook, [content |-> c, partial |-> TRUE]),
                "text_chunk")

\* the final, non-partial chunk is published and handled
StreamFinal(c) ==
  /\ Connected
  /\ backend.turnState = "NarratingText"
  /\ backend.turnEvents # <<>>
  /\ StreamStep([Publish(backend, TextChunk(FALSE) @@ [content |-> c])
                   EXCEPT !.turnState = "ExecutingTool"],
                handleTextChunk(hook, [content |-> c, partial |-> FALSE]),
                "text_chunk")

\* the tool call and the completion are published and handled
StreamToolCall(result) ==
  /\ Connected
  /\ backend.turnState = "ExecutingTool"
  /\ StreamStep([Publish(Publish(backend, ToolCall(backend.tool, result)),
                         TurnComplete)
                   EXCEPT !.turnState = "Completed"],
                handleCompletion(
                  handleFunctionCall(hook, [function |-> <<backend.tool>>,
                                            parameters |-> Parameters,
                                            result |-> NullResult])),
                "completion")


(***************************************************************************)
(* Specifications                                                          *)
(***************************************************************************)
InitSessionVars ==
  /\ appPhase = "rendered"
  /\ savedSessionId = Null
  /\ validation = "none"
  /\ pendingCreates = 0
  /\ requests = NoRequests
  /\ sessionsCreated = 0

InitSession ==
  /\ hook = hookInit
  /\ backend = backendInit
  /\ chat = chatInit
  /\ state = initialState
  /\ nextCartId = 0
  /\ lastOp = NoOp
  \* nothing, or the session id an earlier visit has left
  /\ localStorage \in {Null, "s0"}
  /\ InitSessionVars

NextSession ==
  \/ ChatInterfaceInitEffect
  \/ ProviderMountEffect
  \* what the backend may answer to GET /api/sessions/{id}/context
  \/ \E outcome \in {"200", "404", "410", "500", "network_error"} :
       validateOrCreateRespond(outcome)
  \* what the backend may answer to POST /api/sessions
  \/ \E outcome \in {"ok", "not_ok", "network_error"} :
       createSessionRespond(outcome)
  \/ PageReload

SpecSession == InitSession /\ [][NextSession]_vars

InitCart ==
  /\ hook = hookInit
  /\ backend = backendInit
  /\ chat = chatInit
  /\ state = initialState
  /\ nextCartId = 0
  /\ lastOp = NoOp
  /\ localStorage = Null
  /\ InitSessionVars

NextCart ==
  \/ \E item \in CartInputs : addToCart(item)
  \/ \E id \in 1..MaxCartAdds, q \in Quantities : updateCartItem(id, q)
  \/ \E id \in 1..MaxCartAdds : removeFromCart(id)
  \/ clearCart

SpecCart == InitCart /\ [][NextCart]_vars

\* the search history: some queries have been added, more are
InitHistory ==
  /\ hook = hookInit
  /\ backend = backendInit
  /\ chat = chatInit
  /\ \E n \in 0..Len(SearchTexts) : state = HistoryAfter(n)
  /\ nextCartId = 0
  /\ lastOp = NoOp
  /\ localStorage = Null
  /\ InitSessionVars

NextHistory == \E i \in 1..Len(SearchTexts) : addSearchQuery(SearchTexts[i])

SpecHistory == InitHistory /\ [][NextHistory]_vars

InitHook ==
  /\ hook = hookInit
  /\ backend = backendInit
  /\ chat = chatInit
  /\ state = initialState
  /\ nextCartId = 0
  /\ lastOp = NoOp
  /\ localStorage = Null
  /\ InitSessionVars

\* the connection life cycle of the hook: every step that touches the
\* EventSource, the timers, the attempt counter or connectionStatus
NextConnection ==
  \/ SessionIdSet
  \/ Unmount
  \/ SourceOpens
  \/ \E fatal \in BOOLEAN : SourceFails(fatal)
  \/ \E payload \in ErrorPayloads : ServerErrorEvent(payload)
  \/ \E t \in TimerRecords : TimerFires(t)
  \/ CallReconnect
  \/ CallStop

SpecConnection == InitHook /\ [][NextConnection]_vars

\* the message list of the hook: every step that touches messages, over a
\* connection that opens and is re-opened by the hook's timers
NextMessages ==
  \/ SessionIdSet
  \/ SourceOpens
  \/ \E payload \in ErrorPayloads : ServerErrorEvent(payload)
  \/ \E c \in Chunks, partial \in BOOLEAN :
       TextChunkEvent([content |-> c, partial |-> partial])
  \/ \E f \in {<<"search_products">>} :
       FunctionCallEvent([function |-> f, parameters |-> Parameters,
                          result |-> NullResult])
  \/ CompletionEvent
  \/ \E event \in MessageEvents : MessageEvent(event)
  \/ \E t \in TimerRecords : TimerFires(t)
  \/ CallSendMessage
  \/ \E ok \in BOOLEAN : SendMessageAnswered(ok)
  \/ CallClearMessages

SpecMessages == InitHook /\ [][NextMessages]_vars

\* the rendering of function calls: one function_call event at a time
\* arrives in an empty chat and is rendered by MessageList
NextRender ==
  \/ SessionIdSet
  \/ SourceOpens
  \/ \E data \in FunctionCallData : FunctionCallArrives(data)
  \/ CallClearMessages

SpecRender == InitHook /\ [][NextRender]_vars

\* the context tracker of one session
NextContext ==
  \/ \E results \in { <<>>, <<P1>>, <<P1, P2>> } : RecordSearch(results)
  \/ \E d \in Durations : TimePasses(d)
  \/ Sweep
  \/ \E product_id \in { P1, P2, <<"p", "9">>, <<"z", "9">> } :
       ValidateProductId(product_id)

SpecContext == InitHook /\ [][NextContext]_vars

\* the turns of one session
NextTurn ==
  \/ ReceiveMessage
  \/ \E tool \in Tools : Plan(tool)
  \/ NarratePartial
  \/ NarrateFinal
  \/ \E result \in ToolResults : ExecuteTool(result)
  \/ TurnReturnsToIdle
  \/ TurnFails
  \/ FailedReturnsToIdle

SpecTurn == InitHook /\ [][NextTurn]_vars

\* the catalog searches of one process
NextSearch ==
  \/ \E query \in SearchQueries : SearchProducts(query)
  \/ \E d \in Durations : TimePasses(d)

SpecSearch == InitHook /\ [][NextSearch]_vars


\* the message input of a chat whose connection comes and goes
NextInput ==
  \/ SessionIdSet
  \/ SourceOpens
  \/ \E fatal \in BOOLEAN : SourceFails(fatal)
  \* what the textarea can hold: at most one fragment that is not white space
  \/ \E value \in { <<>>, <<" ">>, <<"hello">>, <<" ", "hello">>, <<"hello", " ">> } :
       TypeInput(value)
  \* the key presses: e.key and e.shiftKey
  \/ \E e \in [ key : {"Enter", "a"}, shiftKey : BOOLEAN ] : KeyPress(e)
  \/ ClickSend
  \/ \E i \in 1..MaxSends, ok \in BOOLEAN : SendResumes(i, ok)

SpecInput == InitHook /\ [][NextInput]_vars


\* narrated turns streamed to a connected client
NextStream ==
  \/ SessionIdSet
  \/ SourceOpens
  \/ ReceiveMessage
  \/ \E tool \in Tools \ SilentTools : Plan(tool)
  \/ \E c \in Chunks : StreamPartial(c)
  \/ \E c \in Chunks : StreamFinal(c)
  \/ \E result \in ToolResults : StreamToolCall(result)
  \/ TurnReturnsToIdle

SpecStream == InitHook /\ [][NextStream]_vars



(***************************************************************************)
(* Properties of the cart (SpecCart)                                       *)
(***************************************************************************)
LinesOf(items, pid) == { i \in 1..Len(items) : items[i].product_id = pid }

NoTwoLinesShareProduct ==
  \A i, j \in 1..Len(state.cartItems) :
    state.cartItems[i].product_id = state.cartItems[j].product_id => i = j

\* a step that is a call addToCart(item) for a product already in the cart
AddMergesStep ==
  LET pid == lastOp'.product_id
      i   == FindIndexByProduct(state.cartItems, pid)
  IN  (lastOp'.fn = "addToCart" /\ nextCartId' = nextCartId + 1 /\ i >= 1)
      => /\ Len(state'.cartItems) = Len(state.cartItems)
         /\ LinesOf(state'.cartItems, pid) = {i}
         /\ state'.cartItems[i].quantity =
              state.cartItems[i].quantity + lastOp'.quantity
         /\ state'.cartItems[i].total_price =
              (state.cartItems[i].quantity + lastOp'.quantity)
                * state'.cartItems[i].unit_price
         /\ state'.cartItems[i].unit_price = state.cartItems[i].unit_price

\* C6: adding a product that is already in the cart merges into the existing
\* line (quantity q1+q2, total_price (q1+q2) * unit_price), and no two lines
\* of the cart ever share a product_id.
C6_AddMergesIntoExistingLine ==
  [](NoTwoLinesShareProduct) /\ [][AddMergesStep]_vars

\* C6 witness: the second add of a product has been merged into its line
C6_Witness ==
  /\ nextCartId = 2
  /\ lastOp.fn = "addToCart"
  /\ lastOp.quantity = 2
  /\ Len(state.cartItems) = 1
  /\ state.cartItems[1].product_id = lastOp.product_id
  /\ state.cartItems[1].quantity = 3
  /\ state.cartItems[1].total_price = 3 * state.cartItems[1].unit_price

\* C7: after any sequence of cart operations cartTotal equals the sum of
\* total_price over the current cart lines.
C7_CartTotalIsSumOfLines ==
  state.cartTotal = SumTotalPrice(state.cartItems)

\* C7 witness: a line has been removed from a cart of two lines, and the
\* total is that of the remaining line
C7_Witness ==
  /\ lastOp.fn = "removeFromCart"
  /\ lastOp.id = 1
  /\ nextCartId = 2
  /\ Len(state.cartItems) = 1
  /\ state.cartItems[1].id = 2
  /\ state.cartTotal = state.cartItems[1].total_price
  /\ state.cartTotal > 0

\* C8: after any sequence of cart operations every cart line satisfies
\* total_price = quantity * unit_price.
C8_LineTotalIsQuantityTimesPrice ==
  \A i \in 1..Len(state.cartItems) :
    state.cartItems[i].total_price =
      state.cartItems[i].quantity * state.cartItems[i].unit_price

\* C9: after any sequence of cart operations every cart line has
\* quantity > 0.
C9_QuantityPositive ==
  \A i \in 1..Len(state.cartItems) : state.cartItems[i].quantity > 0

(***************************************************************************)
(* Properties of the reconnection of the hook (SpecConnection)             *)
(***************************************************************************)
\* number of pending timers set by scheduleReconnect
PendingReconnects(h) ==
  BagCardinality([t \in {x \in DOMAIN h.timers : x.kind = "reconnect"} |-> h.timers[t]])

\* a connection error handled once the counter has reached the maximum
\* schedules no reconnect and surfaces the error
GiveUpAtMaxStep ==
  (hook'.lastEvent = "network_error" /\ hook' # hook
     /\ hook.reconnectAttemptsRef >= maxReconnectAttempts)
  => /\ PendingReconnects(hook') = PendingReconnects(hook)
     /\ hook'.error = "Max reconnection attempts reached"

\* C1: the hook makes at most maxReconnectAttempts automatic reconnect
\* attempts between two opens: the attempt counter never exceeds
\* maxReconnectAttempts, and once it has reached it a further connection
\* error schedules no reconnect and surfaces 'Max reconnection attempts
\* reached'.
C1_AtMostMaxReconnectAttempts ==
  [](hook.reconnectAttemptsRef <= maxReconnectAttempts) /\ [][GiveUpAtMaxStep]_vars

\* a step in which a reconnect timer fires as the n-th consecutive attempt
NthAttemptStep ==
  (hook'.lastEvent = "timer" /\ hook'.reconnectAttemptsRef = hook.reconnectAttemptsRef + 1)
  => \A t \in DOMAIN hook.timers :
       hook'.timers = hook.timers (-) SetToBag({t})
       => t.delay = baseReconnectDelay * Pow2(hook'.reconnectAttemptsRef - 1)

\* a connection failure handled below the maximum schedules one reconnect
OneReconnectPerFailureStep ==
  (hook'.lastEvent = "network_error" /\ hook' # hook
     /\ hook.reconnectAttemptsRef < maxReconnectAttempts)
  => PendingReconnects(hook') = PendingReconnects(hook) + 1

\* C2: the n-th consecutive automatic reconnect attempt is scheduled with
\* delay baseReconnectDelay * 2^(n-1), and each connection failure schedules
\* exactly one reconnect.
C2_BackoffDelays ==
  [][NthAttemptStep]_vars /\ [][OneReconnectPerFailureStep]_vars

\* C3: handling a server-emitted `error` event that carries a payload appends
\* one error message and sets error, leaves connectionStatus as it was
\* ('connected') and schedules no reconnect.
C3_FailedTurnKeepsStream ==
  [][ (hook'.lastEvent = "error" /\ hook' # hook
         /\ Len(hook'.messages) = Len(hook.messages) + 1)
      => /\ hook'.messages[Len(hook'.messages)].type = "error"
         /\ SubSeq(hook'.messages, 1, Len(hook.messages)) = hook.messages
         /\ hook'.connectionStatus = hook.connectionStatus
         /\ hook'.timers = hook.timers
         /\ hook'.reconnectTimeoutRef = hook.reconnectTimeoutRef ]_vars

Appended(before, after) ==
  /\ Len(after) = Len(before) + 1
  /\ SubSeq(after, 1, Len(before)) = before

\* the list after the step is the list before with the content of its last
\* message, an assistant message, extended at the end
LastExtended(before, after) ==
  /\ Len(after) = Len(before) /\ Len(before) > 0
  /\ \A i \in 1..(Len(before) - 1) : after[i] = before[i]
  /\ before[Len(before)].type = "assistant"
  /\ after[Len(after)].type = "assistant"
  /\ Len(after[Len(after)].content) > Len(before[Len(before)].content)
  /\ SubSeq(after[Len(after)].content, 1, Len(before[Len(before)].content))
       = before[Len(before)].content

\* C5: every handler either appends a message at the end of the list or
\* extends the content of the last assistant message; no existing message is
\* reordered, removed or rewritten, except that clearMessages empties the list.
C5_MessagesKeepOrder ==
  [][ \/ hook'.messages = hook.messages
      \/ Appended(hook.messages, hook'.messages)
      \/ LastExtended(hook.messages, hook'.messages)
      \/ hook'.lastEvent = "clearMessages" /\ hook'.messages = <<>> ]_vars

\* C5 witness: a partial chunk has extended the assistant message that
\* follows the user's message
C5_Witness ==
  /\ hook.lastEvent = "text_chunk"
  /\ Len(hook.messages) = 2
  /\ hook.messages[1].type = "user"
  /\ hook.messages[2] = [type |-> "assistant", content |-> <<"a", "b">>]

(***************************************************************************)
(* Properties of the session start-up (SpecSession)                        *)
(***************************************************************************)
\* C10: when the stored session id is reported missing or gone (404/410, any
\* other non-OK status, a network error), it is removed from localStorage and
\* a fresh session is requested; the stale id is never adopted as sessionId
\* and its validation is not retried.
C10_StaleIdDroppedAndReplaced ==
  validation = "rejected" =>
    /\ state.sessionId # savedSessionId
    /\ localStorage # savedSessionId
    /\ requests.validate = 1
    /\ requests.createByProvider = 1

\* C10 witness: the stored id was rejected and the session created in its
\* place has been adopted and stored
C10_Witness ==
  /\ validation = "rejected"
  /\ savedSessionId # Null
  /\ pendingCreates = 0
  /\ state.sessionId \notin {Null, savedSessionId}
  /\ localStorage = state.sessionId

\* C11: at start-up a stored session id that validates OK becomes the active
\* sessionId and no create-session request is issued; a session is created
\* only when the stored id is absent or invalid, so one page load issues at
\* most one create-session request.
C11_ValidStoredIdIsReusedWithoutCreate ==
  /\ validation = "accepted" =>
       /\ state.sessionId = savedSessionId
       /\ requests.createByChatInterface + requests.createByProvider = 0
  /\ requests.createByChatInterface + requests.createByProvider <= 1

(***************************************************************************)
(* Properties of the rendering of function calls (SpecRender)              *)
(***************************************************************************)
\* the function_call messages of the chat
FunctionCallsShown ==
  { i \in 1..Len(hook.messages) : hook.messages[i].type = "function_call" }

\* the validation a result reports and the product it carries, wherever the
\* result holds them
ReportedValidation(result) ==
  IF result.data.validation.present THEN result.data.validation
  ELSE result.own.validation
CarriesProduct(result) ==
  result.data.product # Null \/ result.own.product # Null

\* C12: for show_product_details, a result that reports a failed validation
\* (validation.valid = false) or carries no product is rendered as the
\* 'Invalid Product ID' banner with the validation's message and at most 5
\* of its suggestions, never as the product card.
C12_InvalidProductBanner ==
  \A i \in FunctionCallsShown :
    LET call == hook.messages[i].function_call
        v == ReportedValidation(call.result)
        shown == FunctionCallRenderer(call)
    IN  (/\ Trim(call.name) = <<"show_product_details">>
         /\ \/ v.present /\ ~v.valid
            \/ ~CarriesProduct(call.result))
        => /\ shown.view = "ErrorBanner"
           /\ shown.title = "Invalid Product ID"
           /\ v.present /\ v.error # Null => shown.message = v.error
           /\ shown.suggestions = Slice(v.suggestions, 5)

\* C13: a result {success: false, error: <string>} without data is rendered
\* by the tool's own component in its fallback state, not by an error view.
C13_ErrorResultRendersToolComponent ==
  \A i \in FunctionCallsShown :
    LET call == hook.messages[i].function_call
        shown == FunctionCallRenderer(call)
    IN  (/\ call.name \in DOMAIN FunctionComponents
         /\ call.result.kind = "flat"
         /\ IsString(call.result.own.error)
         /\ [call.result.own EXCEPT !.error = Null] = EmptyPayload)
        => /\ shown.view = FunctionComponents[call.name]
           /\ call.name = <<"add_to_", "cart">> => shown.title = "Added to Cart"
           /\ call.name = <<"search_products">> =>
                shown.title = "Search Results" /\ shown.message = "No products found."

\* C14: every function name that is not a key of FunctionComponents is
\* rendered as the 'Unknown Function Call' fallback showing the name and the
\* parameters, never as a tool component.
C14_UnknownNameRendersFallback ==
  \A i \in FunctionCallsShown :
    LET call == hook.messages[i].function_call
        shown == FunctionCallRenderer(call)
    IN  call.name \notin DOMAIN FunctionComponents
        => /\ shown.view = "Unknown"
           /\ shown.title = "Unknown Function Call"
           /\ shown.name = call.name
           /\ shown.parameters = call.parameters

(***************************************************************************)
(* Properties of sendMessage (SpecMessages)                                *)
(***************************************************************************)
SendFailedMessage ==
  [type |-> "error", content |-> <<"Message send failed, retry if needed">>]

SendMessageStep ==
  /\ hook'.lastEvent = "sendMessage" =>
       /\ hook'.messages =
            Append(hook.messages, [type |-> "user", content |-> <<"hello">>])
       /\ hook'.pendingSends = hook.pendingSends + 1
  /\ hook'.lastEvent = "send_failed" =>
       /\ hook'.messages = Append(hook.messages, SendFailedMessage)
       /\ hook'.connectionStatus = hook.connectionStatus
       /\ hook'.error = hook.error
       /\ hook'.reconnectAttemptsRef = hook.reconnectAttemptsRef
       /\ hook'.timers = hook.timers
  /\ hook'.rejectedSends = 0

\* C15: sendMessage never rejects: it appends the user message when it issues
\* the POST, and when the POST fails (network error or non-2xx answer) it
\* appends exactly one error message and leaves connectionStatus, error and
\* the reconnect attempt counter as they were.
C15_SendMessageNeverRejects == [][SendMessageStep]_vars

\* C15 witness: a POST issued on a connected stream has failed; the error
\* message follows the user message
C15_Witness ==
  /\ hook.lastEvent = "send_failed"
  /\ hook.connectionStatus = "connected"
  /\ hook.error = Null
  /\ hook.rejectedSends = 0
  /\ hook.messages = << [type |-> "user", content |-> <<"hello">>], SendFailedMessage >>

\* C16: a failed send is shown to the user as an inline error bubble: the
\* error message sendMessage has added is among the messages MessageList
\* displays.
C16_SendFailureIsDisplayed ==
  \A i \in 1..Len(hook.messages) :
    hook.messages[i] = SendFailedMessage =>
      \E j \in 1..Len(visibleMessages(hook.messages)) :
        visibleMessages(hook.messages)[j] = SendFailedMessage

(***************************************************************************)
(* Properties of the hook's unmount (SpecConnection)                       *)
(***************************************************************************)
\* C17: once the hook is unmounted (its cleanup has run disconnect), its
\* EventSource is closed, no timer of the hook is pending and no EventSource
\* is open or created afterwards, whatever errors, reconnects or stop()
\* calls came before.
C17_UnmountReleasesConnection ==
  ~hook.mounted /\ hook.sessionId # "" =>
    /\ hook.eventSourceRef = Null
    /\ hook.openSources = 0
    /\ hook.timers = EmptyBag

(***************************************************************************)
(* Properties of the typing indicator (SpecMessages)                       *)
(***************************************************************************)
TypingStep ==
  /\ (~hook.isTyping /\ hook'.isTyping) => hook'.lastEvent = "text_chunk"
  /\ hook'.lastEvent = "completion" => ~hook'.isTyping

\* C18: the completion event is the turn boundary of the typing indicator:
\* isTyping turns true only in the step that handles a text_chunk, and it is
\* false once a completion is handled, hence false until the next text_chunk.
C18_CompletionEndsTyping == [][TypingStep]_vars

\* C18 witness: a turn has streamed text (the indicator was on) and its
\* completion has switched the indicator off
C18_Witness ==
  /\ hook.lastEvent = "completion"
  /\ ~hook.isTyping
  /\ Len(hook.messages) = 1
  /\ hook.messages[1] = [type |-> "assistant", content |-> <<"a", "b">>]

(***************************************************************************)
(* Properties of the backend's turns (SpecTurn)                            *)
(***************************************************************************)
IsChunk(e, partial) == e.type = "text_chunk" /\ e.partial = partial

\* the events ev of one turn are in the order text, function_call,
\* completion, as far as the turn has got
TurnOrder(ev) ==
  \A i \in 1..Len(ev) :
    /\ ev[i].type = "text_chunk" =>
         /\ i = 1 \/ IsChunk(ev[i - 1], TRUE)
         /\ i < Len(ev) =>
              IF ev[i].partial THEN ev[i + 1].type = "text_chunk"
              ELSE ev[i + 1].type = "function_call"
    /\ ev[i].type = "function_call" =>
         /\ i = 1 \/ IsChunk(ev[i - 1], FALSE)
         /\ i < Len(ev) => ev[i + 1].type = "completion"
         /\ ev[i].call.function # Null
         /\ ev[i].call.parameters # Null
         /\ ev[i].call.result # Null
    /\ ev[i].type = "completion" =>
         /\ i = Len(ev)
         /\ i > 1 /\ ev[i - 1].type = "function_call"

TurnClosed == backend.turnState = "Idle" /\ backend.turnEvents # <<>>

ValidatedUnseenId ==
  /\ backend.lastStep = "validate"
  /\ backend.lastCall.product_id \notin backend.everReturned

\* identifiers recorded for the session inside the validation window
IdsInWindow ==
  { id \in backend.everReturned :
      \E i \in 1..Len(backend.entries) :
        /\ backend.entries[i].timestamp >= backend.now - ValidationWindow
        /\ InResults(id, backend.entries[i].results) }

\* C20: a tool call carrying an identifier that no prior search of the
\* session has returned fails validation, and its suggestion list is not
\* empty whenever the session has at least one prior entry.
C20_UnseenIdFailsWithSuggestions ==
  ValidatedUnseenId =>
    /\ ~backend.lastCall.valid
    /\ backend.entries # <<>> => backend.lastCall.suggestions # <<>>

\* C20 as amended: the suggestion list is not empty whenever an identifier
\* has been recorded for the session inside the validation window.
C20_UnseenIdFailsWithSuggestionsInWindow ==
  ValidatedUnseenId =>
    /\ ~backend.lastCall.valid
    /\ IdsInWindow # {} => backend.lastCall.suggestions # <<>>

\* C20 witness: a first search found nothing, a second returned p1 and p2;
\* the unseen identifier p9 is refused and both are suggested
C20_Witness ==
  /\ ValidatedUnseenId
  /\ Len(backend.entries) = 2
  /\ backend.entries[1].results = <<>>
  /\ backend.lastCall = [product_id |-> <<"p", "9">>, valid |-> FALSE,
                         suggestions |-> <<P1, P2>>]

(***************************************************************************)
(* Properties of the catalog search (SpecSearch)                           *)
(***************************************************************************)
WirelesHedphones ==
  <<"w","i","r","e","l","e","s"," ","h","e","d","p","h","o","n","e","s">>

WirelessHeadphones ==
  <<"w","i","r","e","l","e","s","s"," ","h","e","a","d","p","h","o","n","e","s">>

\* C21: search("wireles hedphones") finds no direct match, corrects the
\* query token by token to "wireless headphones", searches again with the
\* corrected query and returns at least one item of the seeded catalog.
C21_FuzzySearchFindsHeadphones ==
  (backend.lastStep = "search_products" /\ backend.search.query = WirelesHedphones)
    => /\ backend.search.fuzzy
       /\ backend.search.corrected_query = WirelessHeadphones
       /\ backend.search.items # <<>>

\* the part of the scenario the search does fulfil: the fallback runs and
\* the corrected query is "wireless headphones"
C21_QueryIsCorrected ==
  (backend.lastStep = "search_products" /\ backend.search.query = WirelesHedphones)
    => /\ backend.search.fuzzy
       /\ backend.search.corrected_query = WirelessHeadphones

(***************************************************************************)
(* Properties of the message input (SpecInput)                             *)
(***************************************************************************)
InputSends == hook'.lastEvent \in {"keypress", "click"} /\ chat'.lastInput.sent

\* C22: MessageInput calls onSend only when the value is non-blank after
\* trimming and the control is not disabled, which ChatInterface makes
\* equivalent to connectionStatus = 'connected'; from the keyboard only
\* Enter without Shift sends.
C22_SendsOnlyNonBlankWhenConnected ==
  [][ InputSends =>
        /\ NonBlank(chat.inputValue)
        /\ hook.connectionStatus = "connected"
        /\ chat'.lastInput.control = "textarea" =>
             (chat'.lastInput.key = "Enter" /\ ~chat'.lastInput.shiftKey) ]_vars

C22_Witness ==
  /\ hook.lastEvent = "keypress"
  /\ chat.lastInput.sent
  /\ chat.lastInput.key = "Enter"
  /\ hook.messages # <<>>

\* a step in which the POST of a first attempt is answered with a failure
FirstAttemptFails ==
  /\ hook'.lastEvent = "send_failed"
  /\ \A i \in 1..Len(chat.sending) : chat.sending[i].attempt = 1

\* C23: when the first attempt to send a message fails, handleSendMessage
\* retries the same message once, 250 ms later: after the failure the call
\* is waiting for its retry, and no call makes a third attempt.
C23_FailedSendIsRetriedOnce ==
  [][ /\ FirstAttemptFails =>
           /\ Len(chat'.sending) = Len(chat.sending)
           /\ \E i \in 1..Len(chat'.sending) :
                /\ chat'.sending[i].phase = "setTimeout"
                /\ chat'.sending[i].delay = RetryDelay
                /\ chat'.sending[i].message = chat.sending[i].message
      /\ \A i \in 1..Len(chat'.sending) : chat'.sending[i].attempt <= 2 ]_vars

\* C24: after a failed session creation sessionId stays null, isLoading is
\* false again, and the UI retries: as long as the mounted application has no
\* session, a request that can establish one is in flight, so that no page
\* reload is needed once the backend answers OK.
C24_FailedCreateIsRetried ==
  (appPhase = "mounted" /\ state.sessionId = Null)
    => \/ pendingCreates > 0
       \/ validation = "pending"

\* what does hold after the last create has failed
C24_FailedCreateLeavesNoSession ==
  (appPhase = "mounted" /\ state.sessionId = Null
     /\ pendingCreates = 0 /\ validation # "pending")
    => /\ ~state.isLoading
       /\ localStorage = Null

\* C25: at most one EventSource created by the hook is open at any time,
\* whatever made the hook connect (the session id, a reconnect timer,
\* reconnect() or stop()), and none is open or referenced while sessionId is
\* empty.
C25_AtMostOneEventSource ==
  /\ hook.openSources <= 1
  /\ hook.sessionId = "" => (hook.openSources = 0 /\ hook.eventSourceRef = Null)

\* a reconnect timer has replaced the EventSource
C25_Witness ==
  /\ hook.lastEvent = "timer"
  /\ hook.reconnectAttemptsRef > 0
  /\ hook.openSources = 1
  /\ hook.readyState = CONNECTING

\* C26: handling an unnamed event (a heartbeat or any other message event)
\* leaves the message list, isTyping, connectionStatus, error and the
\* reconnect attempt counter as they are, also when its data is not JSON.
C26_UnnamedEventChangesNothing ==
  [][ hook'.lastEvent = "message" =>
        /\ hook'.messages = hook.messages
        /\ hook'.isTyping = hook.isTyping
        /\ hook'.connectionStatus = hook.connectionStatus
        /\ hook'.error = hook.error
        /\ hook'.reconnectAttemptsRef = hook.reconnectAttemptsRef ]_vars

\* an unnamed event has been handled in the middle of a streamed answer
C26_Witness ==
  /\ hook.lastEvent = "message"
  /\ hook.isTyping
  /\ hook.messages # <<>>

(***************************************************************************)
(* Properties of the search history (SpecHistory)                          *)
(***************************************************************************)
PositionIn(seq, x) == CHOOSE i \in 1..Len(seq) : seq[i] = x

AddsQuery == lastOp'.fn = "addSearchQuery" /\ lastOp' # lastOp

\* C27: after any ADD_SEARCH_QUERY the history holds at most 10 queries,
\* each once, the query just added at the head and the others behind it in
\* the order they had (so the history is most-recent-first, and re-adding
\* a query moves it to the head); an entry is lost only to the limit of 10.
C27_HistoryIsRecentFirst ==
  [][ AddsQuery =>
        LET old == state.searchHistory
            new == state'.searchHistory
        IN  /\ Len(new) <= 10
            /\ \A i, j \in 1..Len(new) : new[i] = new[j] => i = j
            /\ new[1] = lastOp'.query
            /\ \A i \in 2..Len(new) : \E k \in 1..Len(old) : old[k] = new[i]
            /\ \A i, j \in 2..Len(new) :
                 i < j => PositionIn(old, new[i]) < PositionIn(old, new[j])
            /\ \A k \in 1..Len(old) :
                 \/ old[k] = lastOp'.query
                 \/ \E i \in 2..Len(new) : new[i] = old[k]
                 \/ Len(new) = 10 ]_vars

\* a new query has been added to a full history, and the oldest has gone
C27_Witness ==
  /\ lastOp.fn = "addSearchQuery"
  /\ lastOp.nth = 1
  /\ lastOp.query = "q12"
  /\ Len(state.searchHistory) = 10
  /\ state.searchHistory[1] = "q12"
  /\ state.searchHistory[10] = "q2"

(***************************************************************************)
(* Properties of a streamed turn (SpecStream)                              *)
(***************************************************************************)
\* the text of the current turn: the contents of its chunks, in order
TurnText ==
  LET chunks == SelectSeq(backend.turnEvents, LAMBDA e : e.type = "text_chunk")
  IN  [ i \in 1..Len(chunks) |-> chunks[i].content ]

AssistantMessages ==
  { i \in 1..Len(hook.messages) : hook.messages[i].type = "assistant" }

\* C28: a turn streamed as partial chunks and one final non-partial chunk
\* adds exactly one assistant message to the list, and that message holds
\* the text of the turn: when a turn completes there are as many assistant
\* messages as turns, and the last of them is the turn's text.
C28_OneAssistantMessagePerTurn ==
  (backend.turnState = "Completed" /\ hook.lastEvent = "completion")
    => /\ Cardinality(AssistantMessages) = backend.turns
       /\ \E i \in AssistantMessages :
            /\ \A j \in AssistantMessages : j <= i
            /\ hook.messages[i].content = TurnText

\* what the hook does with such a turn: the partial chunks make one
\* assistant message, the final chunk a second one
C28_FinalChunkIsItsOwnMessage ==
  (backend.turnState = "Completed" /\ hook.lastEvent = "completion")
    => /\ Cardinality(AssistantMessages) = 2 * backend.turns
       /\ \E i \in AssistantMessages :
            /\ i + 1 \in AssistantMessages
            /\ hook.messages[i].content \o hook.messages[i + 1].content = TurnText

====
